---------------------------- MODULE Spec2Model ----------------------------
(***************************************************************************)
(* Model of k8s-web-service: the EKS token generator and client            *)
(* construction (internal/auth/aws.go, internal/k8s client), and the PEM   *)
(* certificate parsers and certificate-source extraction                   *)
(* (pkg/utils/cert.go, internal/k8s/certificates.go).                      *)
(*                                                                         *)
(* Text that the code computes on (cluster names, URLs, tokens) is a       *)
(* sequence of one-character strings; text that the code only passes on    *)
(* (credentials, role ARNs, environment keys and values) is a TLA+ string. *)
(***************************************************************************)
EXTENDS Integers, Sequences, FiniteSets, TLC

(***************************************************************************)
(* Text helpers                                                            *)
(***************************************************************************)

\* The printable ASCII characters, code 32 (space) to code 126 (~). Code 96
\* is written "BACKTICK": the character itself cannot stand in a string here.
Ascii ==
  <<" ", "!", "\"", "#", "$", "%", "&", "'", "(", ")", "*", "+", ",", "-", ".", "/",
    "0", "1", "2", "3", "4", "5", "6", "7", "8", "9", ":", ";", "<", "=", ">", "?",
    "@", "A", "B", "C", "D", "E", "F", "G", "H", "I", "J", "K", "L", "M", "N", "O",
    "P", "Q", "R", "S", "T", "U", "V", "W", "X", "Y", "Z", "[", "\\", "]", "^", "_",
    "BACKTICK", "a", "b", "c", "d", "e", "f", "g", "h", "i", "j", "k", "l", "m", "n", "o",
    "p", "q", "r", "s", "t", "u", "v", "w", "x", "y", "z", "{", "|", "}", "~">>

\* []byte(s): the byte values of a text.
Bytes(s) == [i \in 1..Len(s) |-> 31 + (CHOOSE k \in 1..Len(Ascii) : Ascii[k] = s[i])]

\* strings.Contains(s, sub)
Contains(s, sub) ==
  \E i \in 0..(Len(s) - Len(sub)) : SubSeq(s, i + 1, i + Len(sub)) = sub

\* strings.HasPrefix(s, p)
HasPrefix(s, p) == Len(s) >= Len(p) /\ SubSeq(s, 1, Len(p)) = p

(***************************************************************************)
(* encoding/base64, RawURLEncoding: the URL-safe alphabet, no padding.     *)
(***************************************************************************)

B64Alphabet ==
  <<"A", "B", "C", "D", "E", "F", "G", "H", "I", "J", "K", "L", "M", "N", "O", "P",
    "Q", "R", "S", "T", "U", "V", "W", "X", "Y", "Z", "a", "b", "c", "d", "e", "f",
    "g", "h", "i", "j", "k", "l", "m", "n", "o", "p", "q", "r", "s", "t", "u", "v",
    "w", "x", "y", "z", "0", "1", "2", "3", "4", "5", "6", "7", "8", "9", "-", "_">>

B64Char(n) == B64Alphabet[n + 1]

\* Three bytes give four characters; a tail of one byte gives two characters
\* and a tail of two bytes gives three (the missing bits are zero).
RECURSIVE EncodeToString(_)
EncodeToString(b) ==
  IF Len(b) = 0 THEN <<>>
  ELSE IF Len(b) = 1 THEN
    LET n == b[1] * 16
    IN  <<B64Char(n \div 64), B64Char(n % 64)>>
  ELSE IF Len(b) = 2 THEN
    LET n == (b[1] * 256 + b[2]) * 4
    IN  <<B64Char(n \div 4096), B64Char((n \div 64) % 64), B64Char(n % 64)>>
  ELSE
    LET n == b[1] * 65536 + b[2] * 256 + b[3]
    IN  <<B64Char(n \div 262144), B64Char((n \div 4096) % 64),
          B64Char((n \div 64) % 64), B64Char(n % 64)>>
        \o EncodeToString(SubSeq(b, 4, Len(b)))

B64Valid(s) ==
  /\ \A i \in 1..Len(s) : \E k \in 1..Len(B64Alphabet) : B64Alphabet[k] = s[i]
  /\ Len(s) % 4 # 1

B64Index(c) == (CHOOSE k \in 1..Len(B64Alphabet) : B64Alphabet[k] = c) - 1

\* DecodeString of a valid input: the bytes it encodes.
RECURSIVE DecodeBytes(_)
DecodeBytes(s) ==
  IF Len(s) < 2 THEN <<>>
  ELSE IF Len(s) = 2 THEN
    LET n == B64Index(s[1]) * 64 + B64Index(s[2])
    IN  <<n \div 16>>
  ELSE IF Len(s) = 3 THEN
    LET n == B64Index(s[1]) * 4096 + B64Index(s[2]) * 64 + B64Index(s[3])
    IN  <<n \div 1024, (n \div 4) % 256>>
  ELSE
    LET n == B64Index(s[1]) * 262144 + B64Index(s[2]) * 4096
             + B64Index(s[3]) * 64 + B64Index(s[4])
    IN  <<n \div 65536, (n \div 256) % 256, n % 256>>
        \o DecodeBytes(SubSeq(s, 5, Len(s)))

\* RawURLEncoding.DecodeString: the bytes, or an error on a character outside
\* the alphabet or on a dangling single character.
DecodeString(s) ==
  IF B64Valid(s) THEN [bytes |-> DecodeBytes(s), err |-> ""]
  ELSE [bytes |-> <<>>, err |-> "illegal base64 data"]

(***************************************************************************)
(* Bounds of the model                                                     *)
(***************************************************************************)

\* The longest PEM input, counted in items (blocks, stray text, white space).
MaxItems == 3

\* The latest clock reading of an initial state, in hours.
MaxNow == 3

\* The longest list of records an expiry report is given.
MaxRecords == 3

\* The longest Duration formatDuration is given, in days.
MaxDays == 800

\* The most volumes a pod has.
MaxVolumes == 2

(***************************************************************************)
(* PEM text and X.509 certificates (encoding/pem, crypto/x509)             *)
(*                                                                         *)
(* A PEM text is a sequence of items: a well-formed block (its type and    *)
(* its DER content), text that is no well-formed block, or white space.    *)
(* A DER content is the number of a certificate of X509Certs, or 0 for     *)
(* bytes that are no certificate. Time is counted in hours.                *)
(***************************************************************************)

X509Certs ==
  <<[Subject |-> [CommonName |-> "root", Organization |-> "acme"],
     Issuer |-> [CommonName |-> "root", Organization |-> "acme"],
     SerialNumber |-> 1, NotBefore |-> -100, NotAfter |-> 50,
     DNSNames |-> <<>>, IPAddresses |-> <<>>, KeyUsage |-> 96, IsCA |-> TRUE],
    [Subject |-> [CommonName |-> "api", Organization |-> ""],
     Issuer |-> [CommonName |-> "root", Organization |-> "acme"],
     SerialNumber |-> 2, NotBefore |-> -10, NotAfter |-> 2,
     DNSNames |-> <<"api.local">>, IPAddresses |-> <<<<10, 0, 0, 1>>>>,
     KeyUsage |-> 5, IsCA |-> FALSE],
    [Subject |-> [CommonName |-> "mid", Organization |-> "acme"],
     Issuer |-> [CommonName |-> "root", Organization |-> "acme"],
     SerialNumber |-> 3, NotBefore |-> -50, NotAfter |-> 800,
     DNSNames |-> <<>>, IPAddresses |-> <<>>, KeyUsage |-> 32, IsCA |-> TRUE],
    [Subject |-> [CommonName |-> "device", Organization |-> "acme"],
     Issuer |-> [CommonName |-> "mid", Organization |-> "acme"],
     SerialNumber |-> 4, NotBefore |-> -20, NotAfter |-> 70000000,
     DNSNames |-> <<>>, IPAddresses |-> <<>>, KeyUsage |-> 1, IsCA |-> FALSE],
    [Subject |-> [CommonName |-> "old", Organization |-> ""],
     Issuer |-> [CommonName |-> "root", Organization |-> "acme"],
     SerialNumber |-> 5, NotBefore |-> -900, NotAfter |-> -30,
     DNSNames |-> <<"old.local">>, IPAddresses |-> <<>>, KeyUsage |-> 1,
     IsCA |-> FALSE]>>

Block(type, der) == [kind |-> "block", type |-> type, der |-> der]
StrayText == [kind |-> "text", type |-> "", der |-> 0]
WhiteSpace == [kind |-> "space", type |-> "", der |-> 0]

\* The items PEM inputs are made of: the certificates, a CERTIFICATE block
\* whose content is no certificate, a block of another type, stray text and
\* white space.
PemItems ==
  {Block("CERTIFICATE", d) : d \in 0..Len(X509Certs)}
    \cup {Block("PRIVATE KEY", 0), StrayText, WhiteSpace}

RECURSIVE SeqsUpTo(_, _)
SeqsUpTo(S, n) ==
  IF n = 0 THEN {<<>>}
  ELSE LET shorter == SeqsUpTo(S, n - 1)
       IN  shorter \cup {Append(q, x) : q \in {r \in shorter : Len(r) = n - 1}, x \in S}

PemTexts == SeqsUpTo(PemItems, MaxItems)

\* strings.TrimSpace on a PEM text: leading and trailing white space goes.
RECURSIVE TrimLeft(_)
TrimLeft(p) ==
  IF Len(p) > 0 /\ p[1].kind = "space" THEN TrimLeft(Tail(p)) ELSE p

RECURSIVE TrimRight(_)
TrimRight(p) ==
  IF Len(p) > 0 /\ p[Len(p)].kind = "space"
  THEN TrimRight(SubSeq(p, 1, Len(p) - 1)) ELSE p

TrimSpace(p) == TrimRight(TrimLeft(p))

\* pem.Decode: the first well-formed block and what follows it; when there is
\* none, no block and the whole input as the rest.
PemDecode(data) ==
  IF \E i \in 1..Len(data) : data[i].kind = "block"
  THEN LET i == CHOOSE k \in 1..Len(data) :
                  /\ data[k].kind = "block"
                  /\ \A j \in 1..(k - 1) : data[j].kind # "block"
       IN  [found |-> TRUE, block |-> data[i], rest |-> SubSeq(data, i + 1, Len(data))]
  ELSE [found |-> FALSE, block |-> StrayText, rest |-> data]

\* x509.ParseCertificate: the certificate a DER content holds, or an error.
X509Parse(der) ==
  IF der \in 1..Len(X509Certs)
  THEN [cert |-> <<X509Certs[der]>>, err |-> ""]
  ELSE [cert |-> <<>>, err |-> "x509: malformed certificate"]

\* pkix.Name.String()
NameString(name) ==
  <<"CN=", name.CommonName>>
    \o (IF name.Organization # "" THEN <<",O=", name.Organization>> ELSE <<>>)

\* net.IP.String() of an IPv4 address
IPString(ip) ==
  <<ToString(ip[1]), ".", ToString(ip[2]), ".", ToString(ip[3]), ".", ToString(ip[4])>>

\* A quotient rounded down, where Go truncates toward zero.
FloorDiv(x, y) == x \div y

\* int(x / y) of Go: the quotient truncated toward zero.
TruncDiv(x, y) == IF x >= 0 THEN x \div y ELSE -((-x) \div y)

HasBit(n, bit) == (n \div bit) % 2 = 1

\* The key-usage labels, in the order the code appends them.
KeyUsageLabels(ku) ==
  (IF HasBit(ku, 1) THEN <<"Digital Signature">> ELSE <<>>)
    \o (IF HasBit(ku, 4) THEN <<"Key Encipherment">> ELSE <<>>)
    \o (IF HasBit(ku, 8) THEN <<"Data Encipherment">> ELSE <<>>)
    \o (IF HasBit(ku, 16) THEN <<"Key Agreement">> ELSE <<>>)
    \o (IF HasBit(ku, 32) THEN <<"Certificate Sign">> ELSE <<>>)
    \o (IF HasBit(ku, 64) THEN <<"CRL Sign">> ELSE <<>>)

\* The longest time.Duration, 2^63 - 1 nanoseconds, in whole hours.
MaxDuration == 2562047

\* A difference of times taken from the earlier to the later one.
SubReversed(t, u) ==
  IF u - t > MaxDuration THEN MaxDuration
  ELSE IF u - t < -MaxDuration THEN -MaxDuration
  ELSE u - t

\* Time.Sub: t - u in hours; a difference no Duration can hold comes out as
\* the longest or the shortest Duration.
Sub(t, u) ==
  IF t - u > MaxDuration THEN MaxDuration
  ELSE IF t - u < -MaxDuration THEN -MaxDuration
  ELSE t - u

\* A comparison of instants the wrong way round.
Before(t, u) == t < u

\* time.Time.After: t is later than u.
After(t, u) == t > u

\* The record ParseCertificate and ParseCertificateBundle build from a parsed
\* certificate and the clock reading `t` taken right after the parse.
CertificateInfo(cert, t) ==
  [Subject |-> NameString(cert.Subject),
   Issuer |-> NameString(cert.Issuer),
   SerialNumber |-> ToString(cert.SerialNumber),
   NotBefore |-> cert.NotBefore,
   NotAfter |-> cert.NotAfter,
   IsExpired |-> After(t, cert.NotAfter),
   DaysUntilExp |-> TruncDiv(Sub(cert.NotAfter, t), 24),
   DNSNames |-> cert.DNSNames,
   IPAddresses |-> [i \in 1..Len(cert.IPAddresses) |-> IPString(cert.IPAddresses[i])],
   KeyUsage |-> KeyUsageLabels(cert.KeyUsage),
   IsCA |-> cert.IsCA]

(***************************************************************************)
(* The clock. One operation is short against the hour the model counts in: *)
(* its successive time.Now() readings are `t` for the first `j` of them    *)
(* and `t + 1` from then on. An operation takes the readings from the head *)
(* of such a sequence and hands back the ones it did not use.              *)
(***************************************************************************)

\* More readings than one operation of the model takes.
ClockLen == 14 * (MaxItems + 1)

Clock(t, j) == [k \in 1..ClockLen |-> IF k <= j THEN t ELSE t + 1]

(***************************************************************************)
(* pkg/utils/cert.go                                                       *)
(***************************************************************************)

\* ParseCertificate: (record, error); `cert` holds the record, or nothing.
\* `clock` comes back without the reading the record took.
ParseCertificate(certPEM, clock) ==
  LET fail(e) == [cert |-> <<>>, err |-> e, clock |-> clock]
      Parsed(x) ==
        IF x.err # "" THEN fail("failed to parse certificate")
        ELSE [cert |-> <<CertificateInfo(x.cert[1], Head(clock))>>, err |-> "",
              clock |-> Tail(clock)]
      Decoded(d) ==
        IF ~d.found THEN fail("failed to decode PEM block")
        ELSE IF d.block.type # "CERTIFICATE" THEN fail("not a certificate")
        ELSE Parsed(X509Parse(d.block.der))
  IN  Decoded(PemDecode(TrimSpace(certPEM)))

\* A loop that stops at the first block it cannot use, where the code goes
\* on to the next one.
RECURSIVE BundleLoopStopsAtBadBlock(_, _, _)
BundleLoopStopsAtBadBlock(remaining, certificates, clock) ==
  LET Parsed(rest, x) ==
        IF x.err # "" THEN [certs |-> certificates, clock |-> clock]
        ELSE BundleLoopStopsAtBadBlock(
               rest, Append(certificates, CertificateInfo(x.cert[1], Head(clock))),
               Tail(clock))
      Decoded(d) ==
        IF ~d.found THEN [certs |-> certificates, clock |-> clock]
        ELSE IF d.block.type = "CERTIFICATE" THEN Parsed(d.rest, X509Parse(d.block.der))
        ELSE [certs |-> certificates, clock |-> clock]
  IN  Decoded(PemDecode(remaining))

\* The loop of ParseCertificateBundle over the remaining input.
RECURSIVE BundleLoop(_, _, _)
BundleLoop(remaining, certificates, clock) ==
  LET Parsed(rest, x) ==
        IF x.err # "" THEN BundleLoop(rest, certificates, clock)
        ELSE IF Len(rest) = 0
        THEN [certs |-> Append(certificates, CertificateInfo(x.cert[1], Head(clock))),
              clock |-> Tail(clock)]
        ELSE BundleLoop(rest,
                        Append(certificates, CertificateInfo(x.cert[1], Head(clock))),
                        Tail(clock))
      Decoded(d) ==
        IF ~d.found THEN [certs |-> certificates, clock |-> clock]
        ELSE IF d.block.type = "CERTIFICATE" THEN Parsed(d.rest, X509Parse(d.block.der))
        ELSE IF Len(d.rest) = 0 THEN [certs |-> certificates, clock |-> clock]
        ELSE BundleLoop(d.rest, certificates, clock)
  IN  Decoded(PemDecode(remaining))

\* ParseCertificateBundle: (records, error)
ParseCertificateBundle(certBundle, clock) ==
  LET Scanned(r) ==
        IF Len(r.certs) = 0
        THEN [certs |-> <<>>, err |-> "no valid certificates found in bundle",
              clock |-> r.clock]
        ELSE [certs |-> r.certs, err |-> "", clock |-> r.clock]
  IN  Scanned(BundleLoop(TrimSpace(certBundle), <<>>, clock))

(***************************************************************************)
(* internal/k8s/certificates.go                                            *)
(***************************************************************************)

\* CertificateSource with no certificates and no error yet.
NewSource(type, name, namespace) ==
  [Type |-> type, Name |-> name, Namespace |-> namespace, Key |-> "",
   Certificates |-> <<>>, Error |-> ""]

\* The candidate keys of a secret, in the order the code scans them.
SecretCertKeys ==
  <<"tls.crt", "tls.cert", "cert.pem", "certificate.pem", "ca.crt", "ca.pem",
    "client.crt", "server.crt", "cert", "certificate", "ca-bundle.crt",
    "ca-bundle.pem", "root-ca.pem", "intermediate-ca.pem">>

\* The candidate keys of a configmap, in the order the code scans them.
ConfigMapCertKeys ==
  <<"ca.crt", "ca.pem", "ca-bundle.crt", "ca-bundle.pem", "root-ca.pem",
    "intermediate-ca.pem", "tls.crt", "tls.cert", "cert.pem", "certificate.pem",
    "client.crt", "server.crt", "cert", "certificate">>

\* A record that keeps its subject, with no mark of the key.
FromKeyUnmarked(cert, key) == cert

\* cert.Subject = fmt.Sprintf("%s (from %s)", cert.Subject, key)
FromKey(cert, key) == [cert EXCEPT !.Subject = @ \o <<" (from ", key, ")">>]

\* cert.Subject = fmt.Sprintf("%s (Kubernetes Cluster CA)", cert.Subject)
AsClusterCA(cert) == [cert EXCEPT !.Subject = @ \o <<" (Kubernetes Cluster CA)">>]

\* A candidate key that adds only the certificates that have not expired at
\* their reading of the clock.
KeyCertificatesUnexpired(certString, key, clock) ==
  LET Unexpired(certs) == SelectSeq(certs, LAMBDA cert : ~cert.IsExpired)
      Bundle(many) ==
        IF many.err = ""
        THEN [certs |-> Unexpired([i \in 1..Len(many.certs) |->
                                     FromKey(many.certs[i], key)]),
              clock |-> many.clock]
        ELSE [certs |-> <<>>, clock |-> many.clock]
      Single(one) ==
        IF one.err = ""
        THEN [certs |-> Unexpired(<<FromKey(one.cert[1], key)>>), clock |-> one.clock]
        ELSE Bundle(ParseCertificateBundle(certString, one.clock))
  IN  Single(ParseCertificate(certString, clock))

\* What one candidate key adds to allCerts: the single certificate when the
\* value parses as one, else the certificates of the bundle parse, else nothing.
KeyCertificates(certString, key, clock) ==
  LET Bundle(many) ==
        IF many.err = ""
        THEN [certs |-> [i \in 1..Len(many.certs) |-> FromKey(many.certs[i], key)],
              clock |-> many.clock]
        ELSE [certs |-> <<>>, clock |-> many.clock]
      Single(one) ==
        IF one.err = ""
        THEN [certs |-> <<FromKey(one.cert[1], key)>>, clock |-> one.clock]
        ELSE Bundle(ParseCertificateBundle(certString, one.clock))
  IN  Single(ParseCertificate(certString, clock))

\* The loop of ExtractCertificatesFromSecret over certKeys, from key i on.
RECURSIVE SecretKeyLoop(_, _, _, _)
SecretKeyLoop(data, i, allCerts, clock) ==
  LET Added(r) == SecretKeyLoop(data, i + 1, allCerts \o r.certs, r.clock)
  IN  IF i > Len(SecretCertKeys) THEN [certs |-> allCerts, clock |-> clock]
      ELSE IF SecretCertKeys[i] \in DOMAIN data
      THEN Added(KeyCertificates(data[SecretCertKeys[i]], SecretCertKeys[i], clock))
      ELSE SecretKeyLoop(data, i + 1, allCerts, clock)

\* ExtractCertificatesFromSecret: `get` is the answer of the cluster to
\* Secrets(namespace).Get(secretName): an error, or the secret's Data.
ExtractCertificatesFromSecret(get, namespace, secretName, clock) ==
  LET Scanned(r) ==
        [source |-> [NewSource("secret", secretName, namespace)
                       EXCEPT !.Certificates = r.certs],
         err |-> "", clock |-> r.clock]
  IN  IF get.err # ""
      THEN [source |-> [NewSource("secret", secretName, namespace)
                          EXCEPT !.Error = "Failed to get secret: " \o get.err],
            err |-> get.err, clock |-> clock]
      ELSE Scanned(SecretKeyLoop(get.Data, 1, <<>>, clock))

\* The loop of ExtractCertificatesFromConfigMap over certKeys, from key i on:
\* Data is looked up first, BinaryData second.
RECURSIVE ConfigMapKeyLoop(_, _, _, _, _)
ConfigMapKeyLoop(data, binaryData, i, allCerts, clock) ==
  LET Added(r) ==
        ConfigMapKeyLoop(data, binaryData, i + 1, allCerts \o r.certs, r.clock)
  IN  IF i > Len(ConfigMapCertKeys) THEN [certs |-> allCerts, clock |-> clock]
      ELSE IF ConfigMapCertKeys[i] \in DOMAIN data
      THEN Added(KeyCertificates(data[ConfigMapCertKeys[i]], ConfigMapCertKeys[i],
                                 clock))
      ELSE IF ConfigMapCertKeys[i] \in DOMAIN binaryData
      THEN Added(KeyCertificates(binaryData[ConfigMapCertKeys[i]],
                                 ConfigMapCertKeys[i], clock))
      ELSE ConfigMapKeyLoop(data, binaryData, i + 1, allCerts, clock)

\* ExtractCertificatesFromConfigMap: `get` is the answer of the cluster to
\* ConfigMaps(namespace).Get(configMapName).
ExtractCertificatesFromConfigMap(get, namespace, configMapName, clock) ==
  LET Scanned(r) ==
        [source |-> [NewSource("configmap", configMapName, namespace)
                       EXCEPT !.Certificates = r.certs],
         err |-> "", clock |-> r.clock]
  IN  IF get.err # ""
      THEN [source |-> [NewSource("configmap", configMapName, namespace)
                          EXCEPT !.Error = "Failed to get configmap: " \o get.err],
            err |-> get.err, clock |-> clock]
      ELSE Scanned(ConfigMapKeyLoop(get.Data, get.BinaryData, 1, <<>>, clock))

\* GetClusterCACertificateInfo: (source, error)
GetClusterCACertificateInfo(clusterCA, clock) ==
  LET source == NewSource("cluster-ca", "kubernetes-cluster-ca", "")
      Bundle(many) ==
        IF many.err = ""
        THEN [source |-> [source EXCEPT !.Certificates =
                            [i \in 1..Len(many.certs) |-> AsClusterCA(many.certs[i])]],
              err |-> "", clock |-> many.clock]
        ELSE [source |-> [source EXCEPT !.Error =
                            "Failed to parse cluster CA certificate"],
              err |-> "failed to parse cluster CA certificate", clock |-> many.clock]
      Single(one) ==
        IF one.err = ""
        THEN [source |-> [source EXCEPT !.Certificates = <<AsClusterCA(one.cert[1])>>],
              err |-> "", clock |-> one.clock]
        ELSE Bundle(ParseCertificateBundle(clusterCA, one.clock))
  IN  IF Len(clusterCA) = 0
      THEN [source |-> [source EXCEPT !.Error = "No cluster CA certificate available"],
            err |-> "no cluster CA certificate", clock |-> clock]
      ELSE Single(ParseCertificate(clusterCA, clock))

\* A volume of a pod: the name of the secret and of the configmap it
\* references, each kept as a list of at most one name, and whether it has
\* a projected and an emptyDir source.
VolumeOf(secret, configMap, projected, emptyDir) ==
  [Secret |-> secret, ConfigMap |-> configMap, Projected |-> projected,
   EmptyDir |-> emptyDir]

\* A volume with no projected and no emptyDir source.
Volume(secret, configMap) == VolumeOf(secret, configMap, FALSE, FALSE)

\* A source for an object that could not be fetched, with the error lost.
FailedSourceWithoutError(type, name, namespace, err) == NewSource(type, name, namespace)

\* The source AnalyzePodCertificates stores for an object whose extraction
\* returned the error `err`.
FailedSource(type, name, namespace, err) ==
  [NewSource(type, name, namespace) EXCEPT !.Error = err]

\* certSources[key] = source
Store(certSources, key, source) == (key :> source) @@ certSources

\* The loop of AnalyzePodCertificates over pod.Spec.Volumes, from volume i
\* on: for a volume, the secret it names first and the configmap second.
RECURSIVE VolumeLoop(_, _, _, _, _, _)
VolumeLoop(volumes, objects, namespace, i, certSources, clock) ==
  LET Kept(name, type, key, r) ==
        Store(certSources, key,
              IF r.err = "" THEN r.source
              ELSE FailedSource(type, name, namespace, r.err))
      AfterConfigMap(name, sources, r) ==
        VolumeLoop(volumes, objects, namespace, i + 1,
                   Store(sources, "configmap-" \o name,
                         IF r.err = "" THEN r.source
                         ELSE FailedSource("configmap", name, namespace, r.err)),
                   r.clock)
      ConfigMapOf(volume, sources, clk) ==
        IF Len(volume.ConfigMap) = 0
        THEN VolumeLoop(volumes, objects, namespace, i + 1, sources, clk)
        ELSE AfterConfigMap(volume.ConfigMap[1], sources,
                            ExtractCertificatesFromConfigMap(
                              objects.configMaps[volume.ConfigMap[1]], namespace,
                              volume.ConfigMap[1], clk))
      AfterSecret(volume, r) ==
        ConfigMapOf(volume, Kept(volume.Secret[1], "secret",
                                 "secret-" \o volume.Secret[1], r), r.clock)
      SecretOf(volume) ==
        IF Len(volume.Secret) = 0 THEN ConfigMapOf(volume, certSources, clock)
        ELSE AfterSecret(volume,
                         ExtractCertificatesFromSecret(
                           objects.secrets[volume.Secret[1]], namespace,
                           volume.Secret[1], clock))
  IN  IF i > Len(volumes) THEN [certSources |-> certSources, clock |-> clock]
      ELSE SecretOf(volumes[i])

\* AnalyzePodCertificates: (certSources, error). `objects` holds what the
\* cluster answers: the Get of the pod, the trust anchor of the client and
\* the Get of each secret and configmap.
AnalyzePodCertificates(objects, namespace, podName, clock) ==
  LET Scanned(r) == [certSources |-> r.certSources, err |-> "", clock |-> r.clock]
      WithClusterCA(ca) ==
        Scanned(VolumeLoop(objects.get.Volumes, objects, namespace, 1,
                           IF ca.err = "" THEN "cluster-ca" :> ca.source ELSE <<>>,
                           ca.clock))
  IN  IF objects.get.err # ""
      THEN [certSources |-> <<>>, err |-> "failed to get pod " \o podName,
            clock |-> clock]
      ELSE WithClusterCA(GetClusterCACertificateInfo(objects.clusterCA, clock))

(***************************************************************************)
(* Expiry reports: ValidateCertificateExpiry (pkg/utils/cert.go),          *)
(* formatDuration and getExpiryStatusSummary (handlers/cluster_ca.go)      *)
(***************************************************************************)

\* cert.NotAfter.Format("2006-01-02"): the day an instant falls on, as the
\* number of the day.
DateString(t) == "day " \o ToString(t \div 24)

\* A threshold the record must stay under, where the code admits equality.
WithinStrictly(cert, warningDays) == cert.DaysUntilExp < warningDays

\* cert.DaysUntilExp <= warningDays
Within(cert, warningDays) == cert.DaysUntilExp <= warningDays

\* What ValidateCertificateExpiry appends for one record: a message is kept
\* as its parts, the subject among them.
Warning(cert, warningDays) ==
  IF cert.IsExpired
  THEN <<<<"Certificate '">> \o cert.Subject
           \o <<"' has EXPIRED on ", DateString(cert.NotAfter)>>>>
  ELSE IF Within(cert, warningDays)
  THEN <<<<"Certificate '">> \o cert.Subject
           \o <<"' expires in ", ToString(cert.DaysUntilExp), " days (",
                DateString(cert.NotAfter), ")">>>>
  ELSE <<>>

\* ValidateCertificateExpiry: the warnings of the records from `i` on, after
\* `warnings`.
RECURSIVE ValidateLoop(_, _, _, _)
ValidateLoop(certs, warningDays, i, warnings) ==
  IF i > Len(certs) THEN warnings
  ELSE ValidateLoop(certs, warningDays, i + 1,
                    warnings \o Warning(certs[i], warningDays))

ValidateCertificateExpiry(certs, warningDays) ==
  ValidateLoop(certs, warningDays, 1, <<>>)

\* A warning handed on as it is.
Unprefixed(sourceName, warning) == warning

\* fmt.Sprintf("[%s] %s", sourceName, warning)
Prefixed(sourceName, warning) == <<"[", sourceName, "] ">> \o warning

\* GetCertificateExpiryWarnings: the range over the map certSources visits
\* its keys in the order `order`; from key `i` of it on, after allWarnings.
RECURSIVE SourcesLoop(_, _, _, _, _)
SourcesLoop(certSources, warningDays, order, i, allWarnings) ==
  LET Add(sourceName, warnings) ==
        allWarnings \o [k \in 1..Len(warnings) |-> Prefixed(sourceName, warnings[k])]
  IN  IF i > Len(order) THEN allWarnings
      ELSE SourcesLoop(
             certSources, warningDays, order, i + 1,
             IF Len(certSources[order[i]].Certificates) > 0
             THEN Add(order[i],
                      ValidateCertificateExpiry(certSources[order[i]].Certificates,
                                                warningDays))
             ELSE allWarnings)

GetCertificateExpiryWarnings(certSources, warningDays, order) ==
  SourcesLoop(certSources, warningDays, order, 1, <<>>)

\* A threshold of the years form that takes 365 days for a year.
AtLeastAYear(days) == days >= 365

\* formatDuration: days > 365
MoreThanAYear(days) == days > 365

\* formatDuration: `d` is a Duration in whole hours (rounded down).
formatDuration(d) ==
  LET days == TruncDiv(d, 24)
      hours == d % 24
  IN  IF d < 0 THEN "Expired"
      ELSE IF MoreThanAYear(days)
      THEN IF days % 365 > 0
           THEN ToString(days \div 365) \o " years, " \o ToString(days % 365) \o " days"
           ELSE ToString(days \div 365) \o " years"
      ELSE IF days > 30
      THEN IF days % 30 > 0
           THEN ToString(days \div 30) \o " months, " \o ToString(days % 30) \o " days"
           ELSE ToString(days \div 30) \o " months"
      ELSE IF days > 0
      THEN IF hours > 0
           THEN ToString(days) \o " days, " \o ToString(hours) \o " hours"
           ELSE ToString(days) \o " days"
      ELSE ToString(hours) \o " hours"

\* getExpiryStatusSummary, first loop: the label of the first record from
\* `i` on that is expired or within the threshold, "" when there is none.
RECURSIVE StatusScan(_, _, _)
StatusScan(certs, warningDays, i) ==
  IF i > Len(certs) THEN ""
  ELSE IF certs[i].IsExpired THEN "EXPIRED"
  ELSE IF certs[i].DaysUntilExp <= warningDays
  THEN "EXPIRES SOON (" \o ToString(certs[i].DaysUntilExp) \o " days)"
  ELSE StatusScan(certs, warningDays, i + 1)

\* A minimum that stays at the first record.
FirstDays(certs, i, minDays) == minDays

\* getExpiryStatusSummary, second loop: the least DaysUntilExp of the records
\* from `i` on and `minDays`.
RECURSIVE MinDays(_, _, _)
MinDays(certs, i, minDays) ==
  IF i > Len(certs) THEN minDays
  ELSE MinDays(certs, i + 1,
               IF certs[i].DaysUntilExp < minDays THEN certs[i].DaysUntilExp
               ELSE minDays)

getExpiryStatusSummary(certs, warningDays) ==
  IF Len(certs) = 0 THEN "No certificates found"
  ELSE IF StatusScan(certs, warningDays, 1) # "" THEN StatusScan(certs, warningDays, 1)
  ELSE "VALID (" \o ToString(MinDays(certs, 1, certs[1].DaysUntilExp))
         \o " days remaining)"

(***************************************************************************)
(* The process environment and the file system NewClient reads             *)
(***************************************************************************)

\* One entry of os.Environ(): "k=v", or a text `k` with no "=" in it.
EnvEntry(k, v) == [k |-> k, v |-> v, eq |-> TRUE]
EnvNoEq(k) == [k |-> k, v |-> "", eq |-> FALSE]

\* os.Getenv: the value of the first entry of that name, "" when there is none.
Getenv(env, key) ==
  IF \E i \in 1..Len(env) : env[i].eq /\ env[i].k = key
  THEN env[CHOOSE i \in 1..Len(env) :
             /\ env[i].eq /\ env[i].k = key
             /\ \A j \in 1..(i - 1) : ~(env[j].eq /\ env[j].k = key)].v
  ELSE ""

\* filepath.Clean on a path kept as its separators "/" and the names between
\* them: the names that stay, from the token `i` on, after `names`. A "."
\* and an empty name go; a ".." takes the name before it away, goes at the
\* root, and stays where the path is not rooted and no name is before it.
RECURSIVE CleanLoop(_, _, _, _)
CleanLoop(path, rooted, i, names) ==
  IF i > Len(path) THEN names
  ELSE IF path[i] \in {"/", "."} THEN CleanLoop(path, rooted, i + 1, names)
  ELSE IF path[i] = ".."
  THEN IF Len(names) > 0 /\ names[Len(names)] # ".."
       THEN CleanLoop(path, rooted, i + 1, SubSeq(names, 1, Len(names) - 1))
       ELSE IF rooted THEN CleanLoop(path, rooted, i + 1, names)
       ELSE CleanLoop(path, rooted, i + 1, Append(names, ".."))
  ELSE CleanLoop(path, rooted, i + 1, Append(names, path[i]))

\* The text of the names, a "/" between two of them.
RECURSIVE Slashed(_)
Slashed(names) ==
  IF Len(names) = 0 THEN ""
  ELSE IF Len(names) = 1 THEN names[1]
  ELSE names[1] \o "/" \o Slashed(Tail(names))

\* filepath.Clean(path), as a text.
Clean(path) ==
  LET rooted == Len(path) > 0 /\ path[1] = "/"
      names == CleanLoop(path, rooted, 1, <<>>)
  IN  IF rooted THEN "/" \o Slashed(names)
      ELSE IF Len(names) = 0 THEN "."
      ELSE Slashed(names)

\* filepath.Join(homeDir, ".kube", "config")
Join(homeDir) == Clean(homeDir \o <<"/", ".kube", "/", "config">>)

\* getKubeconfigPath: $KUBECONFIG, else <home>/.kube/config, else "" when the
\* home directory is unknown. home.dir is kept as its separators and names.
getKubeconfigPath(env, home) ==
  IF Getenv(env, "KUBECONFIG") # "" THEN Getenv(env, "KUBECONFIG")
  ELSE IF home.err # "" THEN ""
  ELSE Join(home.dir)

(***************************************************************************)
(* Kubeconfig parsing (internal/k8s client)                                *)
(*                                                                         *)
(* A server URL is kept as the parts strings.Split(server, ".") gives.     *)
(***************************************************************************)

NoEKSDetails ==
  [ClusterName |-> <<>>, ClusterEndpoint |-> <<>>, ClusterCA |-> <<>>,
   Region |-> "", RoleARN |-> ""]

\* strings.Contains(server, ".eks."): a part "eks" with a part on each side.
ContainsEks(server) == \E i \in 2..(Len(server) - 1) : server[i] = "eks"

\* The part after the first part "eks" that has a part after it.
RegionOf(server) ==
  IF ContainsEks(server)
  THEN server[1 + (CHOOSE i \in 1..(Len(server) - 1) :
                     /\ server[i] = "eks"
                     /\ \A j \in 1..(i - 1) : server[j] # "eks")]
  ELSE ""

\* The argument after the first "--role-arn" or "-r" that has one after it.
RoleOf(args) ==
  IF \E i \in 1..(Len(args) - 1) : args[i] \in {"--role-arn", "-r"}
  THEN args[1 + (CHOOSE i \in 1..(Len(args) - 1) :
                   /\ args[i] \in {"--role-arn", "-r"}
                   /\ \A j \in 1..(i - 1) : args[j] \notin {"--role-arn", "-r"})]
  ELSE ""

\* string(caData): the bytes of a file as a PEM text. A kubeconfig is text
\* with no PEM block in it.
FileText(file) == IF file.kind = "pem" THEN file.pem ELSE <<StrayText>>

\* parseKubeConfigForEKS: (details, error). `fs` maps the readable paths to
\* their content: a kubeconfig or a PEM text.
parseKubeConfigForEKS(kubeconfigPath, fs) ==
  LET fail(e) == [details |-> NoEKSDetails, err |-> e]
  IN  IF kubeconfigPath = "" THEN fail("kubeconfig path is empty")
      ELSE IF kubeconfigPath \notin DOMAIN fs \/ fs[kubeconfigPath].kind # "kubeconfig"
      THEN fail("failed to load kubeconfig")
      ELSE LET config == fs[kubeconfigPath].config
           IN  IF config.CurrentContext = "" THEN fail("no current context set in kubeconfig")
               ELSE IF config.CurrentContext \notin DOMAIN config.Contexts
               THEN fail("current context not found in kubeconfig")
               ELSE LET context == config.Contexts[config.CurrentContext]
                    IN  IF context.Cluster \notin DOMAIN config.Clusters
                        THEN fail("cluster not found in kubeconfig")
                        ELSE LET cluster == config.Clusters[context.Cluster]
                                 caFromFile == ~cluster.HasCAData
                                               /\ cluster.CertificateAuthority # ""
                                 roleARN ==
                                   IF context.AuthInfo \in DOMAIN config.AuthInfos
                                      /\ config.AuthInfos[context.AuthInfo].HasExec
                                   THEN RoleOf(config.AuthInfos[context.AuthInfo].ExecArgs)
                                   ELSE ""
                             IN  IF caFromFile
                                    /\ cluster.CertificateAuthority \notin DOMAIN fs
                                 THEN fail("failed to read CA file")
                                 ELSE [details |->
                                         [ClusterName |-> context.Cluster,
                                          ClusterEndpoint |-> cluster.Server,
                                          ClusterCA |->
                                            IF cluster.HasCAData
                                            THEN cluster.CertificateAuthorityData
                                            ELSE IF caFromFile
                                            THEN FileText(fs[cluster.CertificateAuthority])
                                            ELSE <<>>,
                                          Region |-> RegionOf(cluster.Server),
                                          RoleARN |-> roleARN],
                                       err |-> ""]

(***************************************************************************)
(* The token generator (internal/auth/aws.go)                              *)
(***************************************************************************)

\* "k8s-aws-v1."
TokenPrefix == <<"k", "8", "s", "-", "a", "w", "s", "-", "v", "1", ".">>

\* "X-K8s-Aws-Id"
ClusterIdHeader == <<"X", "-", "K", "8", "s", "-", "A", "w", "s", "-", "I", "d">>

\* A check that takes one of the two for a key pair.
HasEitherCredential(c) == c.AWS.AccessKeyID # "" \/ c.AWS.SecretAccessKey # ""

\* e.cfg.AWS.AccessKeyID != "" && e.cfg.AWS.SecretAccessKey != ""
HasStaticCredentials(c) == c.AWS.AccessKeyID # "" /\ c.AWS.SecretAccessKey # ""

\* credentials.NewStaticCredentialsProvider(key, secret, session)
StaticCredentials(key, secret, session) ==
  [Source |-> "static", AccessKeyID |-> key, SecretAccessKey |-> secret,
   SessionToken |-> session]

\* The default credential chain of the platform (environment, shared
\* credentials, instance profile): a provider the SDK resolves on use.
DefaultChain ==
  [Source |-> "default-chain", AccessKeyID |-> "", SecretAccessKey |-> "",
   SessionToken |-> ""]

NoAWSConfig == [Credentials |-> DefaultChain, Region |-> "", loaded |-> FALSE]

\* The AWS configuration GenerateToken loads when config.LoadDefaultConfig
\* succeeds.
LoadedAWSConfig(c) ==
  [Credentials |-> IF HasStaticCredentials(c)
                   THEN StaticCredentials(c.AWS.AccessKeyID, c.AWS.SecretAccessKey, "")
                   ELSE DefaultChain,
   Region |-> c.AWS.Region, loaded |-> TRUE]

\* A GenerateToken that drops the credentials AssumeRole returned.
WithAssumedRoleDropped(awsCfg, out) == awsCfg

\* awsCfg.Credentials after a successful AssumeRole.
WithAssumedRole(awsCfg, out) ==
  [awsCfg EXCEPT !.Credentials =
     StaticCredentials(out.AccessKeyId, out.SecretAccessKey, out.SessionToken)]

\* A GenerateToken that encodes the presigned URL as it is.
WithClusterIdLeftOut(urlStr, clusterName) == urlStr

\* The URL GenerateToken encodes: the presigned URL, with the cluster name
\* added as a query parameter unless the URL contains "X-K8s-Aws-Id".
WithClusterId(urlStr, clusterName) ==
  IF ~Contains(urlStr, ClusterIdHeader)
  THEN LET separator == IF ~Contains(urlStr, <<"?">>) THEN <<"?">> ELSE <<"&">>
       IN  urlStr \o separator \o ClusterIdHeader \o <<"=">> \o clusterName
  ELSE urlStr

\* tokenPayload: "k8s-aws-v1." and the unpadded URL-safe base64 of the URL.
TokenPayload(urlStr, clusterName) ==
  TokenPrefix \o EncodeToString(Bytes(WithClusterId(urlStr, clusterName)))

\* The arguments of aws-iam-authenticator.
HelperArgs(clusterName, roleARN) ==
  <<"token", "-i", clusterName>>
    \o (IF roleARN # "" THEN <<"-r", roleARN>> ELSE <<>>)

\* An envMap of the configured values alone.
EnvMapOverridesOnly(env, c) ==
  ("AWS_ACCESS_KEY_ID" :> c.AWS.AccessKeyID)
    @@ ("AWS_SECRET_ACCESS_KEY" :> c.AWS.SecretAccessKey)

\* envMap: the entries that have an "=", a later entry of a name replacing
\* an earlier one, then the configured key pair and, when set, the region.
EnvMap(env, c) ==
  LET keys == {env[i].k : i \in {j \in 1..Len(env) : env[j].eq}}
      last(k) == CHOOSE i \in 1..Len(env) :
                   /\ env[i].eq /\ env[i].k = k
                   /\ \A j \in (i + 1)..Len(env) : ~(env[j].eq /\ env[j].k = k)
      inherited == [k \in keys |-> env[last(k)].v]
      override == ("AWS_ACCESS_KEY_ID" :> c.AWS.AccessKeyID)
                    @@ ("AWS_SECRET_ACCESS_KEY" :> c.AWS.SecretAccessKey)
                    @@ (IF c.AWS.Region # "" THEN ("AWS_REGION" :> c.AWS.Region)
                        ELSE <<>>)
  IN  override @@ inherited

\* The orders in which a range over a Go map can visit its keys.
KeyOrders(m) ==
  {o \in [1..Cardinality(DOMAIN m) -> DOMAIN m] :
     \A i, j \in DOMAIN o : i # j => o[i] # o[j]}

\* cmd.Env: the inherited environment, or, with a configured key pair, the
\* entries of envMap in the order `order` the map was ranged over.
HelperEnv(env, c, order) ==
  IF HasStaticCredentials(c)
  THEN [i \in 1..Len(order) |-> EnvEntry(order[i], EnvMap(env, c)[order[i]])]
  ELSE env

\* json.Unmarshal of the helper's output into {Status {Token string}}. A
\* document is kept by its shape: what stands at the top, under "status" and
\* under "status.token", and the token text when that is a string.
JsonDoc(top, status, token, value) ==
  [top |-> top, status |-> status, token |-> token, value |-> value]

Unmarshal(doc) ==
  IF doc.top = "null" THEN [token |-> <<>>, err |-> ""]
  ELSE IF doc.top # "object" THEN [token |-> <<>>, err |-> "json: cannot unmarshal"]
  ELSE IF doc.status \in {"absent", "null"} THEN [token |-> <<>>, err |-> ""]
  ELSE IF doc.status # "object" THEN [token |-> <<>>, err |-> "json: cannot unmarshal"]
  ELSE IF doc.token \in {"absent", "null"} THEN [token |-> <<>>, err |-> ""]
  ELSE IF doc.token # "string" THEN [token |-> <<>>, err |-> "json: cannot unmarshal"]
  ELSE [token |-> doc.value, err |-> ""]

\* GenerateTokenUsingAuthenticator: (token, error). `run` is what cmd.Output()
\* gives for the helper process: an error (spawn failure, non-zero exit) or
\* its standard output.
GenerateTokenUsingAuthenticator(run) ==
  IF run.err # ""
  THEN [token |-> <<>>, err |-> "failed to execute aws-iam-authenticator"]
  ELSE IF Unmarshal(run.output).err # ""
  THEN [token |-> <<>>, err |-> "failed to parse aws-iam-authenticator output"]
  ELSE [token |-> Unmarshal(run.output).token, err |-> ""]

(***************************************************************************)
(* The request handlers (internal/handlers): pod_certificates.go and       *)
(* cluster_ca.go.                                                          *)
(*                                                                         *)
(* A URL path is kept as its "/" and the texts between them; the text of   *)
(* the warning_days parameter is a sequence of one-character strings. A    *)
(* handler gives back its answer (the status code and the body as a        *)
(* record), the operations it issued against the cluster, and the clock    *)
(* readings it did not use.                                                *)
(***************************************************************************)

\* "0123456789"
Digits == <<"0", "1", "2", "3", "4", "5", "6", "7", "8", "9">>

IsDigit(c) == \E i \in 1..Len(Digits) : Digits[i] = c

DigitValue(c) == (CHOOSE i \in 1..Len(Digits) : Digits[i] = c) - 1

\* The number the digits of `s` write in base ten, after the digits of acc.
RECURSIVE Decimal(_, _)
Decimal(s, acc) ==
  IF Len(s) = 0 THEN acc ELSE Decimal(Tail(s), 10 * acc + DigitValue(Head(s)))

\* The digits without the zeros they start with.
RECURSIVE Significant(_)
Significant(digits) ==
  IF Len(digits) > 0 /\ Head(digits) = "0" THEN Significant(Tail(digits)) ELSE digits

\* The number the digits `a` write is above the one the digits `b` write;
\* neither starts with a zero.
RECURSIVE Exceeds(_, _)
Exceeds(a, b) ==
  IF Len(a) # Len(b) THEN Len(a) > Len(b)
  ELSE IF Len(a) = 0 THEN FALSE
  ELSE IF Head(a) # Head(b) THEN DigitValue(Head(a)) > DigitValue(Head(b))
  ELSE Exceeds(Tail(a), Tail(b))

\* 1<<63 - 1 and 1<<63, the largest int and the size of the least int.
IntMaxText ==
  <<"9", "2", "2", "3", "3", "7", "2", "0", "3", "6", "8", "5", "4", "7", "7", "5",
    "8", "0", "7">>
IntMinText ==
  <<"9", "2", "2", "3", "3", "7", "2", "0", "3", "6", "8", "5", "4", "7", "7", "5",
    "8", "0", "8">>

\* An int: the number n when it is written with at most nine digits, else
\* its sign and digits as `wide`.
IntOf(negative, digits) ==
  IF Len(digits) > 9
  THEN [n |-> 0, wide |-> (IF negative THEN <<"-">> ELSE <<>>) \o digits]
  ELSE [n |-> IF negative THEN 0 - Decimal(digits, 0) ELSE Decimal(digits, 0),
        wide |-> <<>>]

\* The int is above zero.
Positive(int) == IF Len(int.wide) > 0 THEN Head(int.wide) # "-" ELSE int.n > 0

\* strconv.Atoi: an optional sign and at least one digit, nothing else; a
\* number outside the range of int gives the nearest int and a range error.
Atoi(s) ==
  LET signed == Len(s) > 0 /\ Head(s) \in {"+", "-"}
      negative == signed /\ Head(s) = "-"
      digits == IF signed THEN Tail(s) ELSE s
      limit == IF negative THEN IntMinText ELSE IntMaxText
  IN  IF Len(digits) = 0 \/ \E i \in 1..Len(digits) : ~IsDigit(digits[i])
      THEN [int |-> IntOf(FALSE, <<>>), err |-> "invalid syntax"]
      ELSE IF Exceeds(Significant(digits), limit)
      THEN [int |-> IntOf(negative, limit), err |-> "value out of range"]
      ELSE [int |-> IntOf(negative, Significant(digits)), err |-> ""]

\* warningDays: 30, or the number the warning_days parameter writes when
\* that is a number above zero.
WarningDaysOf(warningDaysStr) ==
  IF Len(warningDaysStr) > 0 /\ Atoi(warningDaysStr).err = ""
     /\ Positive(Atoi(warningDaysStr).int)
  THEN Atoi(warningDaysStr).int
  ELSE IntOf(FALSE, <<"3", "0">>)

\* warningDays where it is compared with the days of a record. No record
\* has more days than a Duration holds, so a threshold of more than nine
\* digits compares with every record as MaxDuration does.
Threshold(warningDays) ==
  IF Len(warningDays.wide) > 0 THEN MaxDuration ELSE warningDays.n

\* warningDays as a response shows it: the number, or its digits.
Shown(warningDays) ==
  IF Len(warningDays.wide) > 0 THEN warningDays.wide ELSE warningDays.n

\* warningDays as %d writes it.
ShownText(warningDays) ==
  IF Len(warningDays.wide) > 0 THEN warningDays.wide ELSE <<ToString(warningDays.n)>>

\* The text the parts of `parts` make, one after the other.
RECURSIVE Joined(_)
Joined(parts) == IF Len(parts) = 0 THEN "" ELSE Head(parts) \o Joined(Tail(parts))

\* strings.Trim(path, "/")
RECURSIVE TrimSlashes(_)
TrimSlashes(path) ==
  IF Len(path) > 0 /\ Head(path) = "/" THEN TrimSlashes(Tail(path))
  ELSE IF Len(path) > 0 /\ path[Len(path)] = "/"
  THEN TrimSlashes(SubSeq(path, 1, Len(path) - 1))
  ELSE path

\* strings.Split(path, "/"): the texts between the "/", after `parts` and
\* the text `current` that is being read.
RECURSIVE SplitLoop(_, _, _)
SplitLoop(path, current, parts) ==
  IF Len(path) = 0 THEN Append(parts, current)
  ELSE IF Head(path) = "/" THEN SplitLoop(Tail(path), "", Append(parts, current))
  ELSE SplitLoop(Tail(path), current \o Head(path), parts)

Split(path) == SplitLoop(path, "", <<>>)

\* A request: the handler the mux gives it to, r.URL.Path, and the
\* namespace, warning_days and detailed parameters of r.URL.Query().
Query(handler, path, namespace, warningDaysStr, detailed) ==
  [handler |-> handler, path |-> path, namespace |-> namespace,
   warning_days |-> warningDaysStr, detailed |-> detailed]

\* A request with no parameter `detailed`.
Request(handler, path, namespace, warningDaysStr) ==
  Query(handler, path, namespace, warningDaysStr, "")

\* The namespace of a request: the parameter, or the configured default.
NamespaceOf(request, defaultNamespace) ==
  IF request.namespace = "" THEN defaultNamespace ELSE request.namespace

\* An answer of a handler.
Answer(code, body, ops, clock) ==
  [code |-> code, body |-> body, ops |-> ops, clock |-> clock]

\* http.Error(w, text, code), the text kept as its parts.
HttpError(code, text, ops, clock) == Answer(code, [error |-> text], ops, clock)

\* An operation that deletes the object it names.
DeleteOp(resource, namespace, name) ==
  [verb |-> "delete", resource |-> resource, namespace |-> namespace, name |-> name]

\* clientset.CoreV1().<Resource>(namespace).Get(ctx, name, ...)
GetOp(resource, namespace, name) ==
  [verb |-> "get", resource |-> resource, namespace |-> namespace, name |-> name]

\* clientset.CoreV1().Pods(namespace).List(ctx, ...)
ListOp(resource, namespace) ==
  [verb |-> "list", resource |-> resource, namespace |-> namespace, name |-> ""]

\* What the List of the pods of a namespace answers: an error, or the
\* names of the pods and, name by name, the volumes of each as listed.
PodList(err, items, volumes) == [err |-> err, Items |-> items, Volumes |-> volumes]

\* The objects of a namespace as the cluster answers for them: the List of
\* pods, and the Get of each pod, secret and configmap.
Objects(list, pods, secrets, configMaps) ==
  [list |-> list, pods |-> pods, secrets |-> secrets, configMaps |-> configMaps]

\* A namespace the cluster has nothing in.
NoObjects == Objects(PodList("", <<>>, <<>>), <<>>, <<>>, <<>>)

\* What the cluster answers about its namespaces: to the List of them (an
\* error, or their names), and to the Get of each by its name.
Namespaces(listErr, items, get) ==
  [list |-> [err |-> listErr, Items |-> items], get |-> get]

\* The cluster: its namespaces, and the objects namespace by namespace.
Cluster(namespaces, objects) == [namespaces |-> namespaces, objects |-> objects]

ObjectsOf(cluster, namespace) ==
  IF namespace \in DOMAIN cluster.objects THEN cluster.objects[namespace]
  ELSE NoObjects

\* What Namespaces().Get(name) answers.
NamespaceOfCluster(cluster, name) ==
  IF name \in DOMAIN cluster.namespaces.get THEN cluster.namespaces.get[name]
  ELSE [err |-> "namespaces not found"]

\* The map `objects` without the name `name`.
Without(objects, name) == [n \in DOMAIN objects \ {name} |-> objects[n]]

\* The cluster after it served the operation `op`: a Get and a List leave
\* it as it is, a delete takes the named object away.
Effect(cluster, op) ==
  IF op.verb \in {"get", "list"} \/ op.namespace \notin DOMAIN cluster.objects
  THEN cluster
  ELSE IF op.resource = "pods"
  THEN [cluster EXCEPT !.objects[op.namespace].pods = Without(@, op.name)]
  ELSE IF op.resource = "secrets"
  THEN [cluster EXCEPT !.objects[op.namespace].secrets = Without(@, op.name)]
  ELSE [cluster EXCEPT !.objects[op.namespace].configMaps = Without(@, op.name)]

\* The cluster after it served the operations `ops`, one after the other.
RECURSIVE Effects(_, _)
Effects(cluster, ops) ==
  IF Len(ops) = 0 THEN cluster ELSE Effects(Effect(cluster, Head(ops)), Tail(ops))

\* What AnalyzePodCertificates is answered for a pod of a namespace, through
\* a client with the trust anchor clusterCA.
PodObjects(objects, clusterCA, podName) ==
  [get |-> IF podName \in DOMAIN objects.pods THEN objects.pods[podName]
           ELSE [err |-> "pods not found", Volumes |-> <<>>],
   clusterCA |-> clusterCA, secrets |-> objects.secrets,
   configMaps |-> objects.configMaps]

\* The operations AnalyzePodCertificates issues: the Get of the pod and,
\* when that succeeds, the Get of the secret and of the configmap of each
\* volume, from volume i on.
RECURSIVE VolumeOps(_, _, _)
VolumeOps(volumes, namespace, i) ==
  IF i > Len(volumes) THEN <<>>
  ELSE (IF Len(volumes[i].Secret) = 0 THEN <<>>
        ELSE <<GetOp("secrets", namespace, volumes[i].Secret[1])>>)
         \o (IF Len(volumes[i].ConfigMap) = 0 THEN <<>>
             ELSE <<GetOp("configmaps", namespace, volumes[i].ConfigMap[1])>>)
         \o VolumeOps(volumes, namespace, i + 1)

AnalyzeOps(objects, namespace, podName) ==
  <<GetOp("pods", namespace, podName)>>
    \o (IF objects.get.err # "" THEN <<>>
        ELSE VolumeOps(objects.get.Volumes, namespace, 1))

\* getTotalCertificateCount: the records of all sources, counted source by
\* source over the keys `keys` that are left.
RECURSIVE CountLoop(_, _, _)
CountLoop(certSources, keys, total) ==
  IF keys = {} THEN total
  ELSE LET key == CHOOSE k \in keys : TRUE
       IN  CountLoop(certSources, keys \ {key},
                     total + Len(certSources[key].Certificates))

getTotalCertificateCount(certSources) == CountLoop(certSources, DOMAIN certSources, 0)

\* The order in which a range visits the keys of a map, given the order
\* `perm` of all keys there can be.
Visit(certSources, perm) ==
  LET Held(key) == key \in DOMAIN certSources
  IN  SelectSeq(perm, Held)

\* The body HandlePodCertificateDetails answers with after the analysis.
DetailsBody(podName, namespace, warningDays, certSources, warnings) ==
  [status |-> "success", pod_name |-> podName, namespace |-> namespace,
   warning_days |-> Shown(warningDays),
   certificate_sources |-> certSources,
   expiry_warnings |-> warnings,
   summary |->
     [total_sources |-> Cardinality(DOMAIN certSources),
      total_certificates |-> getTotalCertificateCount(certSources),
      warnings_count |-> Len(warnings)]]

\* HandlePodCertificateDetails. newClient is what k8s.NewClient returned,
\* perm the order of the range over the map of sources.
HandlePodCertificateDetails(request, defaultNamespace, newClient, cluster, clock, perm) ==
  LET namespace == NamespaceOf(request, defaultNamespace)
      warningDays == WarningDaysOf(request.warning_days)
      Reported(podName, analysis, ops, warnings) ==
        Answer(200,
               DetailsBody(podName, namespace, warningDays, analysis.certSources,
                           warnings),
               ops, analysis.clock)
      Analysed(podName, analysis, ops) ==
        IF analysis.err # ""
        THEN HttpError(500, <<"Failed to analyze certificates for pod ", podName,
                              ": ", analysis.err>>,
                       ops, analysis.clock)
        ELSE Reported(podName, analysis, ops,
                      GetCertificateExpiryWarnings(
                        analysis.certSources, Threshold(warningDays),
                        Visit(analysis.certSources, perm)))
      Named(podName, objects) ==
        IF newClient.err # ""
        THEN HttpError(500, <<"Failed to create Kubernetes client: ", newClient.err>>,
                       <<>>, clock)
        ELSE Analysed(podName,
                      AnalyzePodCertificates(objects, namespace, podName, clock),
                      AnalyzeOps(objects, namespace, podName))
      Parts(pathParts) ==
        IF Len(pathParts) < 3 \/ pathParts[3] = ""
        THEN HttpError(400, <<"Pod name is required in URL path: /pod-certificates/{pod-name}">>,
                       <<>>, clock)
        ELSE Named(pathParts[3],
                   PodObjects(ObjectsOf(cluster, namespace),
                              newClient.eksDetails.ClusterCA, pathParts[3]))
  IN  Parts(Split(TrimSlashes(request.path)))

\* The variables HandleCertificateExpiry declares before its loop.
NoTotals ==
  [podExpiryInfos |-> <<>>, allWarnings |-> <<>>, totalCerts |-> 0,
   totalWarnings |-> 0, ops |-> <<>>]

\* A body of the loop that lists every pod it analysed.
PodStepListingAll(totals, podName, analysis, ops, warnings, certCount) ==
  [podExpiryInfos |->
     Append(totals.podExpiryInfos,
            [PodName |-> podName, CertSources |-> analysis.certSources,
             Warnings |-> warnings, WarningCount |-> Len(warnings),
             CertCount |-> certCount]),
   allWarnings |-> totals.allWarnings,
   totalCerts |-> totals.totalCerts + certCount,
   totalWarnings |-> totals.totalWarnings + Len(warnings),
   ops |-> totals.ops \o ops]

\* The body of the loop of HandleCertificateExpiry for one pod, after the
\* analysis of the pod returned without an error.
PodStep(totals, podName, analysis, ops, warnings, certCount) ==
  IF Len(warnings) > 0 \/ certCount > 0
  THEN [podExpiryInfos |->
          Append(totals.podExpiryInfos,
                 [PodName |-> podName, CertSources |-> analysis.certSources,
                  Warnings |-> warnings, WarningCount |-> Len(warnings),
                  CertCount |-> certCount]),
        allWarnings |->
          totals.allWarnings
            \o [k \in 1..Len(warnings) |-> <<"Pod ", podName, ": ">> \o warnings[k]],
        totalCerts |-> totals.totalCerts + certCount,
        totalWarnings |-> totals.totalWarnings + Len(warnings),
        ops |-> totals.ops \o ops]
  ELSE [totals EXCEPT !.ops = @ \o ops]

\* One pass of the loop: the analysis of the pod, skipped when it fails.
\* The result holds the variables of the loop and the clock.
AnalysePod(totals, objects, clusterCA, namespace, podName, warningDays, clock, perm) ==
  LET Analysed(analysis, ops) ==
        IF analysis.err # ""
        THEN [totals |-> [totals EXCEPT !.ops = @ \o ops], clock |-> analysis.clock]
        ELSE [totals |->
                PodStep(totals, podName, analysis, ops,
                        GetCertificateExpiryWarnings(
                          analysis.certSources, warningDays,
                          Visit(analysis.certSources, perm)),
                        getTotalCertificateCount(analysis.certSources)),
              clock |-> analysis.clock]
      Answered(podObjects) ==
        Analysed(AnalyzePodCertificates(podObjects, namespace, podName, clock),
                 AnalyzeOps(podObjects, namespace, podName))
  IN  Answered(PodObjects(objects, clusterCA, podName))

\* The loop over pods.Items, from pod i on; perms[i] is the order of the
\* range over the map of sources of pod i.
RECURSIVE PodsLoop(_, _, _, _, _, _, _, _)
PodsLoop(items, i, r, objects, clusterCA, namespace, warningDays, perms) ==
  IF i > Len(items) THEN r
  ELSE PodsLoop(items, i + 1,
                AnalysePod(r.totals, objects, clusterCA, namespace, items[i],
                           warningDays, r.clock, perms[i]),
                objects, clusterCA, namespace, warningDays, perms)

\* The body HandleCertificateExpiry answers with after its loop.
ExpiryBody(namespace, warningDays, items, totals) ==
  [status |-> "success", namespace |-> namespace,
   warning_days |-> Shown(warningDays),
   summary |-> [total_pods_analyzed |-> Len(items),
                pods_with_certificates |-> Len(totals.podExpiryInfos),
                total_certificates |-> totals.totalCerts,
                total_warnings |-> totals.totalWarnings],
   pod_expiry_info |-> totals.podExpiryInfos,
   all_warnings |-> totals.allWarnings]

\* HandleCertificateExpiry.
HandleCertificateExpiry(request, defaultNamespace, newClient, cluster, clock, perms) ==
  LET namespace == NamespaceOf(request, defaultNamespace)
      warningDays == WarningDaysOf(request.warning_days)
      list == ObjectsOf(cluster, namespace).list
      Looped(r) ==
        Answer(200, ExpiryBody(namespace, warningDays, list.Items, r.totals),
               r.totals.ops, r.clock)
  IN  IF newClient.err # ""
      THEN HttpError(500, <<"Failed to create Kubernetes client: ", newClient.err>>,
                     <<>>, clock)
      ELSE IF list.err # ""
      THEN HttpError(500, <<"Failed to list pods: ", list.err>>,
                     <<ListOp("pods", namespace)>>, clock)
      ELSE Looped(PodsLoop(list.Items, 1,
                           [totals |-> [NoTotals EXCEPT
                                          !.ops = <<ListOp("pods", namespace)>>],
                            clock |-> clock],
                           ObjectsOf(cluster, namespace),
                           newClient.eksDetails.ClusterCA, namespace,
                           Threshold(warningDays), perms))

\* time.Now().Format("January 2, 2006 at 3:04 PM MST"), to the hour.
Formatted(t) == "hour " \o ToString(t)

\* HandleClusterCACertificateExpiry: the cluster CA of the kubeconfig, its
\* records, and for the first record the time left at a new reading of the
\* clock.
HandleClusterCACertificateExpiry(request, env, home, fs, clock) ==
  LET warningDays == WarningDaysOf(request.warning_days)
      Fails(text, clk) == Answer(500, [status |-> "error", error |-> text], <<>>, clk)
      Enhanced(cert, timeUntilExpiry) ==
        [subject |-> cert.Subject, issuer |-> cert.Issuer,
         serial_number |-> cert.SerialNumber, is_ca |-> cert.IsCA,
         is_expired |-> cert.IsExpired,
         validity_period |->
           [not_before |-> cert.NotBefore, not_after |-> cert.NotAfter,
            valid_for_days |-> TruncDiv(Sub(cert.NotAfter, cert.NotBefore), 24)],
         expiry_info |->
           [days_until_expiry |-> cert.DaysUntilExp,
            weeks_until_expiry |-> TruncDiv(timeUntilExpiry, 24 * 7),
            months_until_expiry |-> TruncDiv(timeUntilExpiry, 24 * 30),
            years_until_expiry |-> TruncDiv(timeUntilExpiry, 24 * 365),
            expires_on |-> DateString(cert.NotAfter),
            time_remaining |-> formatDuration(timeUntilExpiry)]]
      Responded(certSource, warnings, enhanced, clk) ==
        Answer(200,
               [status |-> "success", warning_days |-> Shown(warningDays),
                analysis_date |-> Formatted(Head(clk)),
                certificate_info |->
                  [source |-> certSource, warnings |-> warnings,
                   total_certs |-> Len(certSource.Certificates),
                   enhanced_info |-> enhanced],
                summary |->
                  [certificates_analyzed |-> Len(certSource.Certificates),
                   warnings_found |-> Len(warnings),
                   expires_within_days |-> Shown(warningDays),
                   status_summary |->
                     getExpiryStatusSummary(certSource.Certificates,
                                            Threshold(warningDays))]],
               <<>>, Tail(clk))
      Warned(certSource, warnings, clk) ==
        IF Len(certSource.Certificates) > 0
        THEN Responded(certSource, warnings,
                       <<Enhanced(certSource.Certificates[1],
                                  Sub(certSource.Certificates[1].NotAfter, Head(clk)))>>,
                       Tail(clk))
        ELSE Responded(certSource, warnings, <<>>, clk)
      Parsed(r) ==
        IF r.err # ""
        THEN Fails(<<"Failed to parse cluster CA certificate: ", r.err>>, r.clock)
        ELSE Warned(r.source,
                    GetCertificateExpiryWarnings("cluster-ca" :> r.source,
                                                 Threshold(warningDays),
                                                 <<"cluster-ca">>),
                    r.clock)
      Read(ca) ==
        IF ca.err # "" THEN Fails(<<"Failed to get cluster CA: ", ca.err>>, clock)
        ELSE Parsed(GetClusterCACertificateInfo(ca.details.ClusterCA, clock))
      Located(kubeconfigPath) ==
        IF kubeconfigPath = ""
        THEN Fails(<<"Could not determine kubeconfig path">>, clock)
        ELSE Read(parseKubeConfigForEKS(kubeconfigPath, fs))
  IN  Located(getKubeconfigPath(env, home))

\* ValidateAWSConfig: "" for no error. The key and the secret are both set
\* or both empty.
ValidateAWSConfig(c) ==
  IF c.AWS.AccessKeyID = "" /\ c.AWS.SecretAccessKey = "" THEN ""
  ELSE IF c.AWS.AccessKeyID = ""
  THEN "AWS Access Key ID is required when using static credentials"
  ELSE IF c.AWS.SecretAccessKey = ""
  THEN "AWS Secret Access Key is required when using static credentials"
  ELSE ""

\* What k8s.NewClient can return to a handler in the surroundings it runs
\* in: the error of the kubeconfig when that does not parse; else an error
\* of the token generators or of client-go, or a client with the details of
\* the kubeconfig.
NewClientOutcomes(env, home, fs) ==
  LET Parsed(r) ==
        IF r.err # ""
        THEN {[err |-> "failed to parse kubeconfig for EKS details: " \o r.err,
               eksDetails |-> NoEKSDetails]}
        ELSE {[err |-> "failed to generate EKS token", eksDetails |-> NoEKSDetails],
              [err |-> "failed to create Kubernetes clientset",
               eksDetails |-> NoEKSDetails],
              [err |-> "", eksDetails |-> r.details]}
  IN  Parsed(parseKubeConfigForEKS(getKubeconfigPath(env, home), fs))

\* The body of a JSON answer with the status "error".
ErrorBody(text) == [status |-> "error", error |-> text]

JsonError(code, text, ops, clock) == Answer(code, ErrorBody(text), ops, clock)

\* TestConnection: the List of the namespaces, at most one of them.
TestConnection(cluster) == cluster.namespaces.list.err

\* The body ConnectK8sHandler answers with after the connection test.
ConnectBody(details, defaultNamespace) ==
  [status |-> "success",
   message |-> "Successfully connected to Kubernetes cluster",
   cluster_name |-> details.ClusterName,
   cluster_endpoint |-> details.ClusterEndpoint,
   region |-> details.Region,
   default_namespace |-> defaultNamespace]

\* ConnectK8sHandler
ConnectK8sHandler(c, defaultNamespace, newClient, cluster, clock) ==
  IF ValidateAWSConfig(c) # ""
  THEN JsonError(400, <<"AWS configuration validation failed: ", ValidateAWSConfig(c)>>,
                 <<>>, clock)
  ELSE IF newClient.err # ""
  THEN JsonError(500, <<"Failed to create Kubernetes client: ", newClient.err>>,
                 <<>>, clock)
  ELSE IF TestConnection(cluster) # ""
  THEN JsonError(401, <<"Failed to connect to Kubernetes cluster: ",
                        TestConnection(cluster)>>,
                 <<ListOp("namespaces", "")>>, clock)
  ELSE Answer(200, ConnectBody(newClient.eksDetails, defaultNamespace),
              <<ListOp("namespaces", "")>>, clock)

\* The body ListPodsHandler answers with: the name and the namespace of
\* each pod of the list.
ListPodsBody(namespace, items) ==
  [status |-> "success", namespace |-> namespace, count |-> Len(items),
   pods |-> [i \in 1..Len(items) |-> [name |-> items[i], namespace |-> namespace]]]

\* ListPodsHandler
ListPodsHandler(request, defaultNamespace, newClient, cluster, clock) ==
  LET namespace == NamespaceOf(request, defaultNamespace)
      list == ObjectsOf(cluster, namespace).list
  IN  IF newClient.err # ""
      THEN JsonError(500, <<"Failed to create Kubernetes client: ", newClient.err>>,
                     <<>>, clock)
      ELSE IF list.err # ""
      THEN JsonError(500, <<"Failed to list pods in namespace ", namespace, ": ",
                            list.err>>,
                     <<ListOp("pods", namespace)>>, clock)
      ELSE Answer(200, ListPodsBody(namespace, list.Items),
                  <<ListOp("pods", namespace)>>, clock)

\* The body ClusterCAHandler answers with: the CA of the kubeconfig and, of
\* the client, the region, the endpoint and the name of the cluster.
ClusterCABody(clusterCA, details) ==
  [status |-> "success",
   message |-> "Retrieved cluster CA certificate",
   ca_certificate |-> [pem_content |-> clusterCA],
   cluster_info |->
     [region |-> details.Region, cluster_endpoint |-> details.ClusterEndpoint,
      cluster_name |-> details.ClusterName]]

\* ClusterCAHandler
ClusterCAHandler(env, home, fs, newClient, clock) ==
  LET Built(clusterCA) ==
        IF newClient.err # ""
        THEN JsonError(500, <<"Failed to create Kubernetes client: ", newClient.err>>,
                       <<>>, clock)
        ELSE Answer(200, ClusterCABody(clusterCA, newClient.eksDetails), <<>>, clock)
      Read(ca) ==
        IF ca.err # ""
        THEN JsonError(500, <<"Failed to get cluster CA: ", ca.err>>, <<>>, clock)
        ELSE Built(ca.details.ClusterCA)
      Located(kubeconfigPath) ==
        IF kubeconfigPath = ""
        THEN JsonError(500, <<"Could not determine kubeconfig path">>, <<>>, clock)
        ELSE Read(parseKubeConfigForEKS(kubeconfigPath, fs))
  IN  Located(getKubeconfigPath(env, home))

\* The loop of HandlePodCertificates over pod.Spec.Volumes: the source of
\* each volume, the first of the secret, the configmap, "projected" and
\* "emptyDir" that the volume has, and none for a volume of another kind.
VolumeInfos(volumes) ==
  [i \in 1..Len(volumes) |->
     [Type |-> "unknown",
      Source |-> IF Len(volumes[i].Secret) > 0 THEN volumes[i].Secret[1]
                 ELSE IF Len(volumes[i].ConfigMap) > 0 THEN volumes[i].ConfigMap[1]
                 ELSE IF volumes[i].Projected THEN "projected"
                 ELSE IF volumes[i].EmptyDir THEN "emptyDir"
                 ELSE ""]]

\* PodCertInfo of a pod with no analysis.
PodCertInfo(podName, namespace, volumes) ==
  [Name |-> podName, Namespace |-> namespace, Volumes |-> VolumeInfos(volumes),
   CertificateSources |-> <<>>, ExpiryWarnings |-> <<>>]

\* The variables HandlePodCertificates declares before its loop.
NoInfos == [podCertInfos |-> <<>>, allExpiryWarnings |-> <<>>, ops |-> <<>>]

\* The end of the body of the loop of HandlePodCertificates for one pod
\* that was analysed without an error.
InfoStep(infos, podInfo, certSources, ops, warnings) ==
  [podCertInfos |->
     Append(infos.podCertInfos,
            [podInfo EXCEPT !.CertificateSources = certSources,
                            !.ExpiryWarnings = warnings]),
   allExpiryWarnings |->
     infos.allExpiryWarnings
       \o [k \in 1..Len(warnings) |-> <<"Pod ", podInfo.Name, ": ">> \o warnings[k]],
   ops |-> infos.ops \o ops]

\* The end of the body of the loop for a pod that was not analysed, or
\* whose analysis failed.
InfoSkip(infos, podInfo, ops) ==
  [infos EXCEPT !.podCertInfos = Append(@, podInfo), !.ops = @ \o ops]

\* One pass of the loop of HandlePodCertificates with detailed = true.
InfoPod(infos, podInfo, objects, clusterCA, namespace, warningDays, clock, perm) ==
  LET Analysed(analysis, ops) ==
        IF analysis.err # ""
        THEN [infos |-> InfoSkip(infos, podInfo, ops), clock |-> analysis.clock]
        ELSE [infos |->
                InfoStep(infos, podInfo, analysis.certSources, ops,
                         GetCertificateExpiryWarnings(
                           analysis.certSources, warningDays,
                           Visit(analysis.certSources, perm))),
              clock |-> analysis.clock]
      Answered(podObjects) ==
        Analysed(AnalyzePodCertificates(podObjects, namespace, podInfo.Name, clock),
                 AnalyzeOps(podObjects, namespace, podInfo.Name))
  IN  Answered(PodObjects(objects, clusterCA, podInfo.Name))

\* The loop over pods.Items of HandlePodCertificates, from pod i on.
RECURSIVE InfosLoop(_, _, _, _, _, _, _, _, _)
InfosLoop(list, i, r, objects, clusterCA, namespace, warningDays, detailed, perms) ==
  IF i > Len(list.Items) THEN r
  ELSE InfosLoop(list, i + 1,
                 IF detailed
                 THEN InfoPod(r.infos,
                              PodCertInfo(list.Items[i], namespace,
                                          list.Volumes[list.Items[i]]),
                              objects, clusterCA, namespace, warningDays, r.clock,
                              perms[i])
                 ELSE [infos |->
                         InfoSkip(r.infos,
                                  PodCertInfo(list.Items[i], namespace,
                                              list.Volumes[list.Items[i]]),
                                  <<>>),
                       clock |-> r.clock],
                 objects, clusterCA, namespace, warningDays, detailed, perms)

\* The body HandlePodCertificates answers with after its loop.
InfosBody(namespace, warningDays, detailed, items, infos) ==
  [Status |-> "success",
   Message |-> <<"Retrieved certificate information for ", ToString(Len(items)),
                 " pods in namespace '", namespace, "'">>,
   TargetNamespace |-> namespace,
   Pods |-> infos.podCertInfos,
   ExpiryWarnings |-> infos.allExpiryWarnings,
   Notes |->
     IF detailed
     THEN <<<<"Certificate expiry analysis performed with ">>
              \o ShownText(warningDays) \o <<" day warning threshold">>,
            <<"Use ?detailed=true&warning_days=N to customize the warning threshold">>>>
     ELSE <<<<"Use ?detailed=true to include certificate expiry analysis">>>>]

\* HandlePodCertificates
HandlePodCertificates(request, defaultNamespace, newClient, cluster, clock, perms) ==
  LET namespace == NamespaceOf(request, defaultNamespace)
      warningDays == WarningDaysOf(request.warning_days)
      detailed == request.detailed = "true"
      list == ObjectsOf(cluster, namespace).list
      Looped(r) ==
        Answer(200, InfosBody(namespace, warningDays, detailed, list.Items, r.infos),
               r.infos.ops, r.clock)
  IN  IF newClient.err # ""
      THEN HttpError(500, <<"Failed to create Kubernetes client: ", newClient.err>>,
                     <<>>, clock)
      ELSE IF list.err # ""
      THEN HttpError(500, <<"Failed to list pods: ", list.err>>,
                     <<ListOp("pods", namespace)>>, clock)
      ELSE Looped(InfosLoop(list, 1,
                            [infos |-> [NoInfos EXCEPT
                                          !.ops = <<ListOp("pods", namespace)>>],
                             clock |-> clock],
                            ObjectsOf(cluster, namespace),
                            newClient.eksDetails.ClusterCA, namespace,
                            Threshold(warningDays), detailed, perms))

\* The body DebugHandler answers with: the state of the AWS configuration,
\* and the details of the kubeconfig or the error of the client.
DebugBody(c, newClient) ==
  LET awsConfigStatus ==
        [has_access_key |-> c.AWS.AccessKeyID # "",
         has_secret_key |-> c.AWS.SecretAccessKey # "",
         region |-> c.AWS.Region,
         validation_result |->
           IF ValidateAWSConfig(c) # "" THEN <<"failed: ", ValidateAWSConfig(c)>>
           ELSE <<"passed">>]
  IN  IF newClient.err # ""
      THEN [status |-> "success", aws_config |-> awsConfigStatus,
            aws_identity |->
              [error |-> <<"Failed to create client: ", newClient.err>>]]
      ELSE [status |-> "success", aws_config |-> awsConfigStatus,
            kubeconfig_details |-> newClient.eksDetails]

\* DebugHandler
DebugHandler(c, newClient, clock) == Answer(200, DebugBody(c, newClient), <<>>, clock)

\* An entry of the tests of TestK8sAuthHandler.
TestPassed == [status |-> "passed", namespace |-> "", count |-> 0, error |-> ""]

TestFailed(err) == [status |-> "failed", namespace |-> "", count |-> 0, error |-> err]

\* The overall status after the last test.
Overall(tests) ==
  IF \A name \in DOMAIN tests : tests[name].status = "passed" THEN "all_tests_passed"
  ELSE "some_tests_failed"

\* The test of a List: passed with the count of the items, or failed.
ListTest(list, namespace) ==
  IF list.err # "" THEN [TestFailed(list.err) EXCEPT !.namespace = namespace]
  ELSE [TestPassed EXCEPT !.namespace = namespace, !.count = Len(list.Items)]

\* The test of a Get: passed or failed.
GetTest(get, namespace) ==
  IF get.err # "" THEN [TestFailed(get.err) EXCEPT !.namespace = namespace]
  ELSE [TestPassed EXCEPT !.namespace = namespace]

\* TestK8sAuthHandler: the tests of the configuration and of the client, and
\* with a client the four tests against the cluster.
TestK8sAuthHandler(c, defaultNamespace, newClient, cluster, clock) ==
  LET Results(status, tests, ops) ==
        Answer(200, [status |-> status, tests |-> tests], ops, clock)
      Tested(tests) ==
        Results(Overall(tests), tests,
                <<ListOp("namespaces", ""), GetOp("namespaces", "", defaultNamespace),
                  ListOp("pods", defaultNamespace), ListOp("pods", "default")>>)
  IN  IF ValidateAWSConfig(c) # ""
      THEN Results("failed", "aws_config" :> TestFailed(ValidateAWSConfig(c)), <<>>)
      ELSE IF newClient.err # ""
      THEN Results("failed",
                   ("aws_config" :> TestPassed)
                     @@ ("k8s_client_creation" :> TestFailed(newClient.err)),
                   <<>>)
      ELSE Tested(
             ("aws_config" :> TestPassed) @@ ("k8s_client_creation" :> TestPassed)
               @@ ("list_namespaces" :> ListTest(cluster.namespaces.list, ""))
               @@ ("get_target_namespace" :>
                     GetTest(NamespaceOfCluster(cluster, defaultNamespace),
                             defaultNamespace))
               @@ ("list_pods_target_namespace" :>
                     ListTest(ObjectsOf(cluster, defaultNamespace).list,
                              defaultNamespace))
               @@ ("list_pods_default_namespace" :>
                     ListTest(ObjectsOf(cluster, "default").list, "default")))

\* APIDocsHandler: the documentation, with the time it was written at and
\* the configuration.
APIDocsHandler(c, defaultNamespace, clock) ==
  Answer(200,
         [status |-> "success",
          message |-> "Kubernetes Web Service API Documentation",
          version |-> "2.0.0",
          generated_at |-> Formatted(Head(clock)),
          configuration |-> [default_namespace |-> defaultNamespace,
                             aws_region |-> c.AWS.Region]],
         <<>>, Tail(clock))

\* The handler main registers for "/": the list of the endpoints.
RootHandler(clock) ==
  Answer(200,
         [status |-> "success", message |-> "Kubernetes Web Service API",
          version |-> "2.0.0"],
         <<>>, clock)

(***************************************************************************)
(* Inputs of client construction                                           *)
(***************************************************************************)

\* The application configurations: each of the key, the secret and the
\* region set or empty.
Configs ==
  {[AWS |-> [AccessKeyID |-> k, SecretAccessKey |-> s, Region |-> r]] :
     k \in {"", "AKIACFG"}, s \in {"", "cfgsecret"}, r \in {"", "us-east-1"}}

\* "demo", "c1"
ClusterDemo == <<"d", "e", "m", "o">>
ClusterC1 == <<"c", "1">>

EksServer == <<"https://ABCD", "gr7", "us-east-1", "eks", "amazonaws", "com">>
LocalServer == <<"https://localhost:6443">>

OneCertPem == <<Block("CERTIFICATE", 1)>>
TwoCertPem == <<Block("CERTIFICATE", 1), Block("CERTIFICATE", 3)>>

KubeCluster(server, hasData, data, caPath) ==
  [Server |-> server, HasCAData |-> hasData, CertificateAuthorityData |-> data,
   CertificateAuthority |-> caPath]

KubeConfig(current, cluster, clusters, execArgs) ==
  [kind |-> "kubeconfig", pem |-> <<>>,
   config |-> [CurrentContext |-> current,
               Contexts |-> ("ctx" :> [Cluster |-> cluster, AuthInfo |-> "user"]),
               Clusters |-> clusters,
               AuthInfos |-> ("user" :> [HasExec |-> TRUE, ExecArgs |-> execArgs])]]

PemFile(pem) == [kind |-> "pem", pem |-> pem, config |-> <<>>]

\* Kubeconfigs: an EKS cluster with a role to assume and inline CA data; a
\* cluster with no role and its CA in a file; the short form of the role flag
\* with a CA bundle; and the ones parseKubeConfigForEKS rejects.
KubeWithRole ==
  KubeConfig("ctx", ClusterDemo,
             ClusterDemo :> KubeCluster(EksServer, TRUE, OneCertPem, ""),
             <<"token", "-i", "demo", "--role-arn", "arn:aws:iam::1:role/ops">>)
KubeNoRole ==
  KubeConfig("ctx", ClusterC1,
             ClusterC1 :> KubeCluster(LocalServer, FALSE, <<>>, "/etc/ca.pem"),
             <<"token", "-i", "c1">>)
KubeShortRole ==
  KubeConfig("ctx", ClusterC1,
             ClusterC1 :> KubeCluster(EksServer, TRUE, TwoCertPem, ""),
             <<"token", "-r", "arn:aws:iam::1:role/dev", "-i", "c1">>)
KubeNoCA ==
  KubeConfig("ctx", ClusterDemo,
             ClusterDemo :> KubeCluster(LocalServer, FALSE, <<>>, ""),
             <<"token", "-i", "demo", "-r">>)
KubeNoCurrent ==
  KubeConfig("", ClusterDemo,
             ClusterDemo :> KubeCluster(EksServer, TRUE, OneCertPem, ""), <<>>)
KubeLostContext ==
  KubeConfig("gone", ClusterDemo,
             ClusterDemo :> KubeCluster(EksServer, TRUE, OneCertPem, ""), <<>>)
KubeLostCluster ==
  KubeConfig("ctx", ClusterDemo,
             ClusterC1 :> KubeCluster(EksServer, TRUE, OneCertPem, ""), <<>>)

\* os.Environ() holds one entry for a name: the first of the process's
\* environment block.
InheritedEnv ==
  <<EnvEntry("PATH", "/bin"), EnvEntry("AWS_ACCESS_KEY_ID", "AKIAENV"),
    EnvNoEq("ODD"), EnvEntry("AWS_REGION", "eu-west-1")>>

\* A kubeconfig that names itself as the file of its CA.
KubeSelfCA ==
  KubeConfig("ctx", ClusterC1,
             ClusterC1 :> KubeCluster(LocalServer, FALSE, <<>>, "/etc/kc"),
             <<"token", "-i", "c1">>)

\* The home directory "/root", or none with the error homeErr.
World(env, homeErr, fs) ==
  [environ |-> env, home |-> [dir |-> <<"/", "root">>, err |-> homeErr], fs |-> fs]

\* The home directory `dir` and no KUBECONFIG.
WorldAt(dir, fs) == [environ |-> <<>>, home |-> [dir |-> dir, err |-> ""], fs |-> fs]

\* The surroundings of a construction: the inherited environment, the home
\* directory and the readable files.
Worlds ==
  {World(InheritedEnv, "", "/root/.kube/config" :> KubeWithRole),
   World(<<EnvEntry("KUBECONFIG", "/etc/kc")>>, "no home",
         ("/etc/kc" :> KubeNoRole) @@ ("/etc/ca.pem" :> PemFile(TwoCertPem))),
   World(<<>>, "", "/root/.kube/config" :> KubeShortRole),
   World(InheritedEnv, "", "/root/.kube/config" :> KubeNoCA),
   World(<<>>, "no home", "/root/.kube/config" :> KubeWithRole),
   World(<<EnvEntry("KUBECONFIG", "/etc/kc")>>, "",
         "/root/.kube/config" :> KubeWithRole),
   World(<<>>, "", "/root/.kube/config" :> PemFile(OneCertPem)),
   World(<<>>, "", "/root/.kube/config" :> KubeNoCurrent),
   World(<<>>, "", "/root/.kube/config" :> KubeLostContext),
   World(<<>>, "", "/root/.kube/config" :> KubeLostCluster),
   World(<<>>, "", "/root/.kube/config" :> KubeNoRole),
   World(<<EnvEntry("KUBECONFIG", "/etc/kc")>>, "", "/etc/kc" :> KubeSelfCA),
   WorldAt(<<"/">>, "/.kube/config" :> KubeShortRole),
   WorldAt(<<"/", "root", "/">>, "/root/.kube/config" :> KubeWithRole),
   WorldAt(<<"/", "home", "/", "..", "/", "root">>, "/root/.kube/config" :> KubeWithRole)}

\* What the helper process can answer: a failure to run, or an output that
\* is no JSON, null, an array, {}, {"status": null}, {"status": "x"},
\* {"status": {}}, {"status": {"token": 7}}, {"status": {"token": ""}} or
\* {"status": {"token": "tok"}}.
HelperRuns ==
  {[asked |-> TRUE, err |-> "exit status 1",
    output |-> JsonDoc("invalid", "absent", "absent", <<>>)]}
    \cup {[asked |-> TRUE, err |-> "", output |-> d] :
            d \in {JsonDoc("invalid", "absent", "absent", <<>>),
                   JsonDoc("null", "absent", "absent", <<>>),
                   JsonDoc("array", "absent", "absent", <<>>),
                   JsonDoc("object", "absent", "absent", <<>>),
                   JsonDoc("object", "null", "absent", <<>>),
                   JsonDoc("object", "string", "absent", <<>>),
                   JsonDoc("object", "object", "absent", <<>>),
                   JsonDoc("object", "object", "number", <<>>),
                   JsonDoc("object", "object", "string", <<>>),
                   JsonDoc("object", "object", "string", <<"t", "o", "k">>)}}

\* What config.LoadDefaultConfig and sts GetCallerIdentity can answer.
PlainOutcomes == {[asked |-> TRUE, err |-> ""], [asked |-> TRUE, err |-> "failed"]}

\* What sts AssumeRole can answer: an error or temporary credentials.
AssumeRoleOutcomes ==
  {[asked |-> TRUE, err |-> "AccessDenied", AccessKeyId |-> "",
    SecretAccessKey |-> "", SessionToken |-> ""],
   [asked |-> TRUE, err |-> "", AccessKeyId |-> "ASIATMP1",
    SecretAccessKey |-> "tmpsecret1", SessionToken |-> "session1"],
   [asked |-> TRUE, err |-> "", AccessKeyId |-> "ASIATMP2",
    SecretAccessKey |-> "tmpsecret2", SessionToken |-> "session2"]}

\* What PresignGetCallerIdentity can answer: an error, or a URL with a query
\* string, without one, or one that holds "X-K8s-Aws-Id" already (as a query
\* parameter, or inside the path).
PresignOutcomes ==
  {[asked |-> TRUE, err |-> "presign failed", URL |-> <<>>],
   \* https://sts.aws/?Action=G
   [asked |-> TRUE, err |-> "", URL |-> <<"h", "t", "t", "p", "s", ":", "/", "/", "s", "t", "s", ".", "a", "w", "s", "/", "?", "A", "c", "t", "i", "o", "n", "=", "G">>],
   \* https://sts.aws/
   [asked |-> TRUE, err |-> "", URL |-> <<"h", "t", "t", "p", "s", ":", "/", "/", "s", "t", "s", ".", "a", "w", "s", "/">>],
   \* https://sts.aws/?X-K8s-Aws-Id=old
   [asked |-> TRUE, err |-> "", URL |-> <<"h", "t", "t", "p", "s", ":", "/", "/", "s", "t", "s", ".", "a", "w", "s", "/", "?", "X", "-", "K", "8", "s", "-", "A", "w", "s", "-", "I", "d", "=", "o", "l", "d">>],
   \* https://e/X-K8s-Aws-Id/?A=1
   [asked |-> TRUE, err |-> "", URL |-> <<"h", "t", "t", "p", "s", ":", "/", "/", "e", "/", "X", "-", "K", "8", "s", "-", "A", "w", "s", "-", "I", "d", "/", "?", "A", "=", "1">>]}

\* The answers a construction has received so far; none at its start.
NoAnswers ==
  [run |-> [asked |-> FALSE, err |-> "",
            output |-> JsonDoc("invalid", "absent", "absent", <<>>)],
   load |-> [asked |-> FALSE, err |-> ""],
   assume |-> [asked |-> FALSE, err |-> "", AccessKeyId |-> "",
               SecretAccessKey |-> "", SessionToken |-> ""],
   identity |-> [asked |-> FALSE, err |-> ""],
   presign |-> [asked |-> FALSE, err |-> "", URL |-> <<>>],
   clientset |-> [asked |-> FALSE, err |-> ""]]

(***************************************************************************)
(* Inputs of the certificate operations                                    *)
(***************************************************************************)

\* The values a fetched secret or configmap holds under a key: one
\* certificate, a bundle of two, a bundle of three whose middle block is
\* corrupted, bytes that are no certificate, a private key, and a key
\* followed by a certificate.
SamplePems ==
  {OneCertPem,
   TwoCertPem,
   <<Block("CERTIFICATE", 2), Block("CERTIFICATE", 0), Block("CERTIFICATE", 3)>>,
   <<Block("CERTIFICATE", 0)>>,
   <<Block("PRIVATE KEY", 0)>>,
   <<Block("PRIVATE KEY", 0), WhiteSpace, Block("CERTIFICATE", 2)>>}

\* The keys of the objects of the model: two candidate keys, which the two
\* candidate lists order differently, and a key of neither list.
ObjectKeys == {"tls.crt", "ca.crt", "bundle.txt"}

\* The maps from some of the keys to a value.
KeyedPems ==
  UNION {[ks -> SamplePems] : ks \in SUBSET ObjectKeys}

NoGet == [err |-> "", Data |-> <<>>, BinaryData |-> <<>>]

\* The answers of the cluster to the Get of a secret.
SecretGets ==
  {[NoGet EXCEPT !.err = "secrets not found"]}
    \cup {[NoGet EXCEPT !.Data = d] : d \in KeyedPems}

\* The answers of the cluster to the Get of a configmap: a key is in Data, in
\* BinaryData, or in both.
ConfigMapGets ==
  {[NoGet EXCEPT !.err = "configmaps not found"]}
    \cup {[NoGet EXCEPT !.Data = d] : d \in KeyedPems}
    \cup {[NoGet EXCEPT !.BinaryData = d] : d \in KeyedPems}
    \cup {[NoGet EXCEPT !.Data = ("ca.crt" :> p), !.BinaryData = ("ca.crt" :> q)] :
            p \in SamplePems, q \in SamplePems}

Input(kind, pem, get) == [kind |-> kind, pem |-> pem, get |-> get]

NoInput == Input("none", <<>>, NoGet)

Inputs ==
  {Input("pem", p, NoGet) : p \in PemTexts}
    \cup {Input("secret", <<>>, g) : g \in SecretGets}
    \cup {Input("configmap", <<>>, g) : g \in ConfigMapGets}

\* Where the clock can step during an operation that starts at `t`.
Jumps == 0..(MaxItems + 1)

\* Where the clock can step during an operation that leaves the readings
\* `left` of the clock: before any one of the readings it takes, or after
\* the last of them.
Turns(left) == 0..(ClockLen - Len(left))

(***************************************************************************)
(* State                                                                   *)
(***************************************************************************)

VARIABLES
  cfg,         \* the application configuration (config.Config)
  world,       \* the environment, home directory and files of the process
  pc,          \* where NewClient stands
  eksDetails,  \* NewClient: eksDetails
  helperCall,  \* the helper process as it was started: its arguments and cmd.Env
  helper,      \* what GenerateTokenUsingAuthenticator returned
  awsCfg,      \* GenerateToken: awsCfg
  fallback,    \* what GenerateToken returned
  answers,     \* what the helper process, the AWS SDK and client-go answered
  calls,       \* the calls made so far, in order, each with its credentials
  token,       \* NewClient: token
  result,      \* what NewClient returned: a client or an error
  now,         \* the clock, in hours
  input,       \* the input of a certificate operation
  cpc,         \* "ready" before the certificate operation, "done" after it
  output,      \* what the certificate operation returned
  args,        \* the arguments of an expiry report
  ret,         \* what the expiry report returned
  pod,         \* the pod to analyse, and the cluster as it answers
  analysis,    \* what AnalyzePodCertificates returned
  again,       \* what a second AnalyzePodCertificates on the same pod returned
  warned,      \* what GetCertificateExpiryWarnings returned for the analysis
  cluster,     \* the objects of the cluster, namespace by namespace
  reqs         \* the requests in flight: what each handler holds and answered

authVars ==
  <<cfg, world, eksDetails, helperCall, helper, awsCfg, fallback, answers, calls,
    token, result>>

expiryVars == <<args, ret>>

podVars == <<pod, analysis, again, warned>>

serveVars == <<cluster, reqs>>

certVars == <<now, input, cpc, output, expiryVars, podVars, serveVars>>

vars == <<pc, authVars, certVars>>

NoReturn == [token |-> <<>>, err |-> "", returned |-> FALSE]
NoHelperCall == [args |-> <<>>, env |-> <<>>]
NoResult == [client |-> <<>>, err |-> ""]

\* What a certificate operation returned: its records (at most one for
\* ParseCertificate), its source (for the operations that build one), its
\* error, and the clock readings it took.
Output(op, certs, source, err, readings) ==
  [op |-> op, certs |-> certs, source |-> source, err |-> err, readings |-> readings]

NoOutput == Output("none", <<>>, NewSource("", "", ""), "", <<>>)

AuthIdle ==
  /\ eksDetails = NoEKSDetails
  /\ helperCall = NoHelperCall
  /\ helper = NoReturn
  /\ awsCfg = NoAWSConfig
  /\ fallback = NoReturn
  /\ answers = NoAnswers
  /\ calls = <<>>
  /\ token = <<>>
  /\ result = NoResult

\* The arguments of an expiry report: the records and the threshold of
\* ValidateCertificateExpiry and getExpiryStatusSummary, or the Duration of
\* formatDuration.
Args(kind, certs, warningDays, d) ==
  [kind |-> kind, certs |-> certs, warningDays |-> warningDays, d |-> d]

NoArgs == Args("none", <<>>, 0, 0)

\* What an expiry report returned: warnings, or a text.
Ret(op, warnings, text) == [op |-> op, warnings |-> warnings, text |-> text]

NoRet == Ret("none", <<>>, "")

ExpiryIdle == args = NoArgs /\ ret = NoRet

\* A pod as the cluster answers for it: the Get of the pod (an error, or its
\* volumes), the trust anchor of the client, and the Get of each secret and
\* configmap by name.
Pod(get, clusterCA, secrets, configMaps) ==
  [get |-> get, clusterCA |-> clusterCA, secrets |-> secrets,
   configMaps |-> configMaps]

NoPod == Pod([err |-> "", Volumes |-> <<>>], <<>>, <<>>, <<>>)

\* An analysis of the pod: the map certSources as far as it is built, the
\* readings of the clock it has taken and the place `v` among the objects it
\* fetches; and, once AnalyzePodCertificates returned, the error.
NoAnalysis ==
  [returned |-> FALSE, certSources |-> <<>>, err |-> "", readings |-> <<>>, v |-> 0]

\* What GetCertificateExpiryWarnings returned, for which threshold, and the
\* order in which it ranged over the map.
NoWarned == [returned |-> FALSE, warningDays |-> 0, order |-> <<>>, warnings |-> <<>>]

PodIdle ==
  /\ pod = NoPod
  /\ analysis = NoAnalysis
  /\ again = NoAnalysis
  /\ warned = NoWarned

\* No request in flight, and a cluster with nothing in it.
ServeIdle == cluster = <<>> /\ reqs = <<>>

CertIdle ==
  /\ now = 0
  /\ input = NoInput
  /\ cpc = "idle"
  /\ output = NoOutput
  /\ ExpiryIdle
  /\ PodIdle
  /\ ServeIdle

(***************************************************************************)
(* NewClient (internal/k8s client), step by step: one action for each call *)
(* that leaves the process, with the code that runs up to the next one.    *)
(***************************************************************************)

Call(op, creds) == [op |-> op, creds |-> creds]

\* The error return of NewClient.
Fail(e) ==
  /\ result' = [client |-> <<>>, err |-> e]
  /\ pc' = "done"

\* kubeconfigPath := getKubeconfigPath(); parseKubeConfigForEKS(kubeconfigPath)
ParseKubeConfig ==
  /\ pc = "start"
  /\ \E r \in {parseKubeConfigForEKS(getKubeconfigPath(world.environ, world.home),
                                     world.fs)} :
       IF r.err # ""
       THEN /\ Fail("failed to parse kubeconfig for EKS details")
            /\ UNCHANGED eksDetails
       ELSE /\ eksDetails' = r.details
            /\ pc' = "helper"
            /\ UNCHANGED result
  /\ UNCHANGED <<cfg, world, helperCall, helper, awsCfg, fallback, answers, calls,
                 token>>
  /\ UNCHANGED certVars

\* A NewClient that goes on to the fallback whatever the helper returned.
AfterAuthenticatorAlwaysFallback(err) == "fallback"

\* Where NewClient goes after the helper strategy returned `err`: on to the
\* rest.Config with the helper's token, or to the fallback strategy.
AfterAuthenticator(err) == IF err = "" THEN "clientset" ELSE "fallback"

\* tokenGen.GenerateTokenUsingAuthenticator(ClusterName, RoleARN): the helper
\* process runs once; on an error NewClient goes on to the fallback.
RunAuthenticator ==
  /\ pc = "helper"
  /\ \E run \in HelperRuns, order \in KeyOrders(EnvMap(world.environ, cfg)) :
       \E r \in {GenerateTokenUsingAuthenticator(run)} :
         /\ helperCall' = [args |-> HelperArgs(eksDetails.ClusterName,
                                               eksDetails.RoleARN),
                           env |-> HelperEnv(world.environ, cfg, order)]
         /\ answers' = [answers EXCEPT !.run = run]
         /\ helper' = [token |-> r.token, err |-> r.err, returned |-> TRUE]
         /\ calls' = Append(calls, Call("GenerateTokenUsingAuthenticator",
                                        DefaultChain))
         /\ token' = r.token
         /\ pc' = AfterAuthenticator(r.err)
  /\ UNCHANGED <<cfg, world, eksDetails, awsCfg, fallback, result>>
  /\ UNCHANGED certVars

\* The error return of GenerateToken, which NewClient hands on.
FallbackFails(e) ==
  /\ fallback' = [token |-> <<>>, err |-> e, returned |-> TRUE]
  /\ token' = <<>>
  /\ Fail("failed to generate EKS token")

\* tokenGen.GenerateToken(ClusterName, RoleARN), first step:
\* config.LoadDefaultConfig, with the static key pair or the default chain.
LoadDefaultConfig ==
  /\ pc = "fallback"
  /\ \E a \in PlainOutcomes :
       /\ answers' = [answers EXCEPT !.load = a]
       /\ calls' = calls \o <<Call("GenerateToken", DefaultChain),
                              Call("LoadDefaultConfig", LoadedAWSConfig(cfg).Credentials)>>
       /\ IF a.err = ""
          THEN /\ awsCfg' = LoadedAWSConfig(cfg)
               /\ pc' = IF eksDetails.RoleARN # "" THEN "assume" ELSE "identity"
               /\ UNCHANGED <<fallback, token, result>>
          ELSE /\ FallbackFails("failed to load AWS config")
               /\ UNCHANGED awsCfg
  /\ UNCHANGED <<cfg, world, eksDetails, helperCall, helper>>
  /\ UNCHANGED certVars

\* GenerateToken: stsClient.AssumeRole, when a role ARN was given.
AssumeRole ==
  /\ pc = "assume"
  /\ \E out \in AssumeRoleOutcomes :
       /\ answers' = [answers EXCEPT !.assume = out]
       /\ calls' = Append(calls, Call("AssumeRole", awsCfg.Credentials))
       /\ IF out.err = ""
          THEN /\ awsCfg' = WithAssumedRole(awsCfg, out)
               /\ pc' = "identity"
               /\ UNCHANGED <<fallback, token, result>>
          ELSE /\ FallbackFails("failed to assume role")
               /\ UNCHANGED awsCfg
  /\ UNCHANGED <<cfg, world, eksDetails, helperCall, helper>>
  /\ UNCHANGED certVars

\* A GenerateToken that goes on to the presigning after a failed identity
\* check.
GetCallerIdentityUnchecked ==
  /\ pc = "identity"
  /\ \E a \in PlainOutcomes :
       /\ answers' = [answers EXCEPT !.identity = a]
       /\ calls' = Append(calls, Call("GetCallerIdentity", awsCfg.Credentials))
       /\ pc' = "presign"
       /\ UNCHANGED <<fallback, token, result>>
  /\ UNCHANGED <<cfg, world, eksDetails, helperCall, helper, awsCfg>>
  /\ UNCHANGED certVars

\* GenerateToken: stsClient.GetCallerIdentity, the check of the credentials.
GetCallerIdentity ==
  /\ pc = "identity"
  /\ \E a \in PlainOutcomes :
       /\ answers' = [answers EXCEPT !.identity = a]
       /\ calls' = Append(calls, Call("GetCallerIdentity", awsCfg.Credentials))
       /\ IF a.err = ""
          THEN pc' = "presign" /\ UNCHANGED <<fallback, token, result>>
          ELSE FallbackFails("failed to get caller identity")
  /\ UNCHANGED <<cfg, world, eksDetails, helperCall, helper, awsCfg>>
  /\ UNCHANGED certVars

\* GenerateToken: presignClient.PresignGetCallerIdentity and the token
\* built from the URL.
PresignGetCallerIdentity ==
  /\ pc = "presign"
  /\ \E out \in PresignOutcomes :
       /\ answers' = [answers EXCEPT !.presign = out]
       /\ calls' = Append(calls, Call("PresignGetCallerIdentity", awsCfg.Credentials))
       /\ IF out.err = ""
          THEN /\ fallback' = [token |-> TokenPayload(out.URL, eksDetails.ClusterName),
                               err |-> "", returned |-> TRUE]
               /\ token' = TokenPayload(out.URL, eksDetails.ClusterName)
               /\ pc' = "clientset"
               /\ UNCHANGED result
          ELSE FallbackFails("failed to presign GetCallerIdentity")
  /\ UNCHANGED <<cfg, world, eksDetails, helperCall, helper, awsCfg>>
  /\ UNCHANGED certVars

\* A rest.Config that leaves the bearer token out.
RestConfigWithoutToken(details, bearer) ==
  [Host |-> details.ClusterEndpoint, BearerToken |-> <<>>,
   CAData |-> details.ClusterCA]

\* restConfig: the endpoint, the bearer token and the CA of the cluster.
RestConfig(details, bearer) ==
  [Host |-> details.ClusterEndpoint, BearerToken |-> bearer,
   CAData |-> details.ClusterCA]

\* kubernetes.NewForConfig(restConfig); the Client on success.
NewForConfig ==
  /\ pc = "clientset"
  /\ \E a \in PlainOutcomes :
       /\ answers' = [answers EXCEPT !.clientset = a]
       /\ IF a.err = ""
          THEN /\ result' = [client |-> <<[config |-> RestConfig(eksDetails, token),
                                           appConfig |-> cfg,
                                           eksDetails |-> eksDetails]>>,
                             err |-> ""]
               /\ pc' = "done"
          ELSE Fail("failed to create Kubernetes clientset")
  /\ UNCHANGED <<cfg, world, eksDetails, helperCall, helper, awsCfg, fallback, calls,
                 token>>
  /\ UNCHANGED certVars

Init ==
  /\ cfg \in Configs
  /\ world \in Worlds
  /\ pc = "start"
  /\ AuthIdle
  /\ CertIdle

Next ==
  \/ ParseKubeConfig
  \/ RunAuthenticator
  \/ LoadDefaultConfig
  \/ AssumeRole
  \/ GetCallerIdentity
  \/ PresignGetCallerIdentity
  \/ NewForConfig

\* One construction of a client.
Spec == Init /\ [][Next]_vars

(***************************************************************************)
(* The certificate operations, each applied once to an input               *)
(***************************************************************************)

\* The readings an operation took of `clock`, given the ones it left.
Taken(clock, left) == SubSeq(clock, 1, Len(clock) - Len(left))

\* The clock after an operation that took `readings`.
ClockAfter(readings) == IF Len(readings) = 0 THEN now ELSE readings[Len(readings)]

\* The state after an operation `op` that returned `r` with records `certs`
\* and source `source`, having started with the readings `clock`.
Applied(op, certs, source, r, clock) ==
  /\ output' = Output(op, certs, source, r.err, Taken(clock, r.clock))
  /\ now' = ClockAfter(Taken(clock, r.clock))
  /\ cpc' = "done"
  /\ UNCHANGED input
  /\ UNCHANGED <<pc, authVars, expiryVars, podVars, serveVars>>

ApplyParseCertificate ==
  /\ cpc = "ready"
  /\ input.kind = "pem"
  /\ \E j \in Jumps :
       \E r \in {ParseCertificate(input.pem, Clock(now, j))} :
         Applied("ParseCertificate", r.cert, NewSource("", "", ""), r, Clock(now, j))

ApplyParseCertificateBundle ==
  /\ cpc = "ready"
  /\ input.kind = "pem"
  /\ \E j \in Jumps :
       \E r \in {ParseCertificateBundle(input.pem, Clock(now, j))} :
         Applied("ParseCertificateBundle", r.certs, NewSource("", "", ""), r,
                 Clock(now, j))

ApplyGetClusterCACertificateInfo ==
  /\ cpc = "ready"
  /\ input.kind = "pem"
  /\ \E j \in Jumps :
       \E r \in {GetClusterCACertificateInfo(input.pem, Clock(now, j))} :
         Applied("GetClusterCACertificateInfo", r.source.Certificates, r.source, r,
                 Clock(now, j))

ApplyExtractCertificatesFromSecret ==
  /\ cpc = "ready"
  /\ input.kind = "secret"
  /\ \E j \in Jumps :
       \E r \in {ExtractCertificatesFromSecret(input.get, "default", "web-tls",
                                               Clock(now, j))} :
         Applied("ExtractCertificatesFromSecret", r.source.Certificates, r.source, r,
                 Clock(now, j))

ApplyExtractCertificatesFromConfigMap ==
  /\ cpc = "ready"
  /\ input.kind = "configmap"
  /\ \E j \in Jumps :
       \E r \in {ExtractCertificatesFromConfigMap(input.get, "default", "trust",
                                                  Clock(now, j))} :
         Applied("ExtractCertificatesFromConfigMap", r.source.Certificates, r.source,
                 r, Clock(now, j))

InitCert ==
  /\ now \in 0..MaxNow
  /\ input \in Inputs
  /\ cpc = "ready"
  /\ output = NoOutput
  /\ ExpiryIdle
  /\ PodIdle
  /\ ServeIdle
  /\ cfg = [AWS |-> [AccessKeyID |-> "", SecretAccessKey |-> "", Region |-> ""]]
  /\ world = World(<<>>, "", <<>>)
  /\ pc = "idle"
  /\ AuthIdle

NextCert ==
  \/ ApplyParseCertificate
  \/ ApplyParseCertificateBundle
  \/ ApplyGetClusterCACertificateInfo
  \/ ApplyExtractCertificatesFromSecret
  \/ ApplyExtractCertificatesFromConfigMap

\* One certificate operation on one input.
SpecCert == InitCert /\ [][NextCert]_vars

(***************************************************************************)
(* The expiry reports, each applied once to its arguments                  *)
(***************************************************************************)

\* The records the parser builds: of each certificate, at each reading.
Records ==
  {CertificateInfo(X509Certs[d], t) : d \in 1..Len(X509Certs), t \in 0..(MaxNow + 1)}

\* The thresholds: the default of the handlers, and ones the records of the
\* model fall on and around.
WarningDays == {1, 2, 30, 33}

\* The Durations formatDuration is given, in hours: from two hours past
\* expiry on, and the longest Duration.
Durations == (-2..(24 * MaxDays + 23)) \cup {MaxDuration}

ArgsSets ==
  {Args("records", certs, w, 0) : certs \in SeqsUpTo(Records, MaxRecords),
                                   w \in WarningDays}
    \cup {Args("duration", <<>>, 0, d) : d \in Durations}

ApplyValidateCertificateExpiry ==
  /\ cpc = "ready"
  /\ args.kind = "records"
  /\ ret' = Ret("ValidateCertificateExpiry",
                ValidateCertificateExpiry(args.certs, args.warningDays), "")
  /\ cpc' = "done"
  /\ UNCHANGED <<pc, authVars, now, input, output, args, podVars, serveVars>>

ApplyGetExpiryStatusSummary ==
  /\ cpc = "ready"
  /\ args.kind = "records"
  /\ ret' = Ret("getExpiryStatusSummary", <<>>,
                getExpiryStatusSummary(args.certs, args.warningDays))
  /\ cpc' = "done"
  /\ UNCHANGED <<pc, authVars, now, input, output, args, podVars, serveVars>>

ApplyFormatDuration ==
  /\ cpc = "ready"
  /\ args.kind = "duration"
  /\ ret' = Ret("formatDuration", <<>>, formatDuration(args.d))
  /\ cpc' = "done"
  /\ UNCHANGED <<pc, authVars, now, input, output, args, podVars, serveVars>>

InitExpiry ==
  /\ args \in ArgsSets
  /\ ret = NoRet
  /\ cpc = "ready"
  /\ now = 0
  /\ input = NoInput
  /\ output = NoOutput
  /\ PodIdle
  /\ ServeIdle
  /\ cfg = [AWS |-> [AccessKeyID |-> "", SecretAccessKey |-> "", Region |-> ""]]
  /\ world = World(<<>>, "", <<>>)
  /\ pc = "idle"
  /\ AuthIdle

NextExpiry ==
  \/ ApplyValidateCertificateExpiry
  \/ ApplyGetExpiryStatusSummary
  \/ ApplyFormatDuration

\* One expiry report on one list of records or one Duration.
SpecExpiry == InitExpiry /\ [][NextExpiry]_vars

(***************************************************************************)
(* AnalyzePodCertificates, applied once to a pod                           *)
(***************************************************************************)

\* The volumes of the pods: of a secret, of a configmap, and of neither.
Volumes ==
  {Volume(<<"web-tls">>, <<>>), Volume(<<"db">>, <<>>), Volume(<<>>, <<"trust">>),
   Volume(<<>>, <<>>)}

\* The Get of a pod: an error, or the pod with its volumes.
PodGets ==
  {[err |-> "pods not found", Volumes |-> <<>>]}
    \cup {[err |-> "", Volumes |-> v] : v \in SeqsUpTo(Volumes, MaxVolumes)}

\* The trust anchors of the client: none, one certificate, a bundle of two,
\* and bytes that are no certificate.
ClusterCAs == {<<>>, OneCertPem, TwoCertPem, <<Block("CERTIFICATE", 0)>>}

\* The Get of a secret of a pod: an error, one certificate under tls.crt,
\* bytes that are no certificate under tls.crt, and certificates under
\* ca.crt, tls.crt and a key that is no candidate.
PodSecretGets ==
  {[NoGet EXCEPT !.err = "secrets not found"],
   [NoGet EXCEPT !.Data = ("tls.crt" :> OneCertPem)],
   [NoGet EXCEPT !.Data = ("tls.crt" :> <<Block("CERTIFICATE", 0)>>)],
   [NoGet EXCEPT !.Data = ("bundle.txt" :> <<Block("CERTIFICATE", 2)>>)
                             @@ ("ca.crt" :> OneCertPem)
                             @@ ("tls.crt" :> <<Block("CERTIFICATE", 3)>>)]}

\* The Get of a configmap of a pod: an error, a certificate in Data, and a
\* certificate in BinaryData.
PodConfigMapGets ==
  {[NoGet EXCEPT !.err = "configmaps not found"],
   [NoGet EXCEPT !.Data = ("ca.crt" :> OneCertPem)],
   [NoGet EXCEPT !.BinaryData = ("ca.crt" :> <<Block("CERTIFICATE", 2)>>)]}

Pods ==
  {Pod(g, ca, ("web-tls" :> s1) @@ ("db" :> s2), "trust" :> c) :
     g \in PodGets, ca \in ClusterCAs, s1 \in PodSecretGets, s2 \in PodSecretGets,
     c \in PodConfigMapGets}

\* The hour turned between two of the readings.
Turned(readings) ==
  Len(readings) > 0 /\ readings[Len(readings)] > readings[1]

\* What AnalyzePodCertificates stores for the object the operation `op`
\* fetches: the key, and the source of the extraction or, when that failed,
\* a source with its error.
ObjectSource(op, objects, namespace, clock) ==
  LET Kept(type, r) ==
        [key |-> type \o "-" \o op.name,
         source |-> IF r.err = "" THEN r.source
                    ELSE FailedSource(type, op.name, namespace, r.err),
         clock |-> r.clock]
  IN  IF op.resource = "secrets"
      THEN Kept("secret",
                ExtractCertificatesFromSecret(objects.secrets[op.name], namespace,
                                              op.name, clock))
      ELSE Kept("configmap",
                ExtractCertificatesFromConfigMap(objects.configMaps[op.name],
                                                 namespace, op.name, clock))

\* AnalyzePodCertificates from the return of Pods(namespace).Get to its
\* next call that waits, or to its return: the error of the Get, or the
\* cluster CA of the client stored when it parses.
AnalysisPodGot(run, objects, namespace, podName, clock) ==
  LET Parsed(ca) ==
        [run EXCEPT !.certSources = IF ca.err = "" THEN "cluster-ca" :> ca.source
                                    ELSE <<>>,
                    !.readings = @ \o Taken(clock, ca.clock),
                    !.v = 1,
                    !.returned = Len(VolumeOps(objects.get.Volumes, namespace, 1)) = 0]
  IN  IF objects.get.err # ""
      THEN [run EXCEPT !.returned = TRUE, !.err = "failed to get pod " \o podName]
      ELSE Parsed(GetClusterCACertificateInfo(objects.clusterCA, clock))

\* AnalyzePodCertificates from the return of the Get of a secret or of a
\* configmap to its next call that waits, or to its return after the last
\* object of the volumes.
AnalysisObjectGot(run, objects, namespace, clock) ==
  LET ops == VolumeOps(objects.get.Volumes, namespace, 1)
      Stored(k) ==
        [run EXCEPT !.certSources = Store(@, k.key, k.source),
                    !.readings = @ \o Taken(clock, k.clock),
                    !.v = @ + 1,
                    !.returned = run.v = Len(ops)]
  IN  Stored(ObjectSource(ops[run.v], objects, namespace, clock))

\* The places at which the hour can turn in a step of the analysis `run`
\* that takes `taken` readings: before any one of them or not at all, and
\* not at all when it has turned between two readings of the analysis.
StepTurns(run, taken) == IF Turned(run.readings) THEN {taken} ELSE 0..taken

\* The analysis `run` after Pods(namespace).Get returned.
AfterPodsGet(run) ==
  {AnalysisPodGot(run, pod, "default", "web-0", Clock(now, j)) :
     j \in StepTurns(run, Len(AnalysisPodGot(run, pod, "default", "web-0",
                                             Clock(now, ClockLen)).readings)
                             - Len(run.readings))}

\* The analysis `run` after the Get of a secret or of a configmap returned.
AfterObjectGet(run) ==
  {AnalysisObjectGot(run, pod, "default", Clock(now, j)) :
     j \in StepTurns(run, Len(AnalysisObjectGot(run, pod, "default",
                                                Clock(now, ClockLen)).readings)
                             - Len(run.readings))}

\* Where the analysis `run` stands: it has returned (`returned`), or it
\* waits for the Get of an object (`waiting`).
AnalysisAt(run, returned, waiting) == IF run.returned THEN returned ELSE waiting

\* AnalyzePodCertificates is called on the pod, and calls
\* Pods(namespace).Get.
ApplyAnalyzePodCertificates ==
  /\ cpc = "ready"
  /\ pod # NoPod
  /\ cpc' = "Pods.Get"
  /\ UNCHANGED <<pc, authVars, now, input, output, expiryVars, podVars, serveVars>>

\* Pods(namespace).Get returns to the analysis.
AnalysisPodsGetReturns ==
  /\ cpc = "Pods.Get"
  /\ \E next \in AfterPodsGet(analysis) :
       /\ analysis' = next
       /\ now' = ClockAfter(next.readings)
       /\ cpc' = AnalysisAt(next, "done", "Objects.Get")
  /\ UNCHANGED <<pc, authVars, input, output, expiryVars, pod, again, warned, serveVars>>

\* Secrets(namespace).Get or ConfigMaps(namespace).Get returns to the
\* analysis.
AnalysisObjectGetReturns ==
  /\ cpc = "Objects.Get"
  /\ \E next \in AfterObjectGet(analysis) :
       /\ analysis' = next
       /\ now' = ClockAfter(next.readings)
       /\ cpc' = AnalysisAt(next, "done", "Objects.Get")
  /\ UNCHANGED <<pc, authVars, input, output, expiryVars, pod, again, warned, serveVars>>

InitPod ==
  /\ pod \in Pods
  /\ analysis = NoAnalysis
  /\ again = NoAnalysis
  /\ warned = NoWarned
  /\ ServeIdle
  /\ now \in 0..MaxNow
  /\ cpc = "ready"
  /\ input = NoInput
  /\ output = NoOutput
  /\ ExpiryIdle
  /\ cfg = [AWS |-> [AccessKeyID |-> "", SecretAccessKey |-> "", Region |-> ""]]
  /\ world = World(<<>>, "", <<>>)
  /\ pc = "idle"
  /\ AuthIdle

NextPod ==
  \/ ApplyAnalyzePodCertificates
  \/ AnalysisPodsGetReturns
  \/ AnalysisObjectGetReturns

\* One analysis of one pod, step by step.
SpecPod == InitPod /\ [][NextPod]_vars

(***************************************************************************)
(* A pod analysed, and then analysed once more or its warnings collected   *)
(***************************************************************************)

\* Pods with a secret and a configmap, with a secret alone, and one that
\* cannot be fetched; the cluster holds the certificates of the model.
RepeatPods ==
  {Pod(g, ca, ("web-tls" :> s1) @@ ("db" :> s2), "trust" :> c) :
     g \in {[err |-> "pods not found", Volumes |-> <<>>],
            [err |-> "", Volumes |-> <<Volume(<<"web-tls">>, <<>>),
                                       Volume(<<>>, <<"trust">>)>>],
            [err |-> "", Volumes |-> <<Volume(<<"db">>, <<>>)>>]},
     ca \in {<<>>, OneCertPem, TwoCertPem},
     s1 \in PodSecretGets,
     s2 \in {[NoGet EXCEPT !.err = "secrets not found"],
             [NoGet EXCEPT !.Data = ("tls.crt" :> <<Block("CERTIFICATE", 5)>>)]},
     c \in PodConfigMapGets}

\* AnalyzePodCertificates is called a second time on the pod, with the
\* cluster as it was.
ApplyAnalyzePodCertificatesAgain ==
  /\ cpc = "done"
  /\ analysis.returned
  /\ cpc' = "Pods.Get again"
  /\ UNCHANGED <<pc, authVars, now, input, output, expiryVars, podVars, serveVars>>

\* Pods(namespace).Get returns to the second analysis.
AnalysisPodsGetReturnsAgain ==
  /\ cpc = "Pods.Get again"
  /\ \E next \in AfterPodsGet(again) :
       /\ again' = next
       /\ now' = ClockAfter(next.readings)
       /\ cpc' = AnalysisAt(next, "again", "Objects.Get again")
  /\ UNCHANGED <<pc, authVars, input, output, expiryVars, pod, analysis, warned, serveVars>>

\* Secrets(namespace).Get or ConfigMaps(namespace).Get returns to the
\* second analysis.
AnalysisObjectGetReturnsAgain ==
  /\ cpc = "Objects.Get again"
  /\ \E next \in AfterObjectGet(again) :
       /\ again' = next
       /\ now' = ClockAfter(next.readings)
       /\ cpc' = AnalysisAt(next, "again", "Objects.Get again")
  /\ UNCHANGED <<pc, authVars, input, output, expiryVars, pod, analysis, warned, serveVars>>

\* GetCertificateExpiryWarnings on the map the analysis returned.
ApplyGetCertificateExpiryWarnings ==
  /\ cpc = "done"
  /\ analysis.returned
  /\ analysis.err = ""
  /\ \E warningDays \in WarningDays, order \in KeyOrders(analysis.certSources) :
       warned' = [returned |-> TRUE, warningDays |-> warningDays, order |-> order,
                  warnings |-> GetCertificateExpiryWarnings(analysis.certSources,
                                                            warningDays, order)]
  /\ cpc' = "warned"
  /\ UNCHANGED <<pc, authVars, now, input, output, expiryVars, pod, analysis, again, serveVars>>

InitRepeat ==
  /\ pod \in RepeatPods
  /\ analysis = NoAnalysis
  /\ again = NoAnalysis
  /\ warned = NoWarned
  /\ ServeIdle
  /\ now \in 0..MaxNow
  /\ cpc = "ready"
  /\ input = NoInput
  /\ output = NoOutput
  /\ ExpiryIdle
  /\ cfg = [AWS |-> [AccessKeyID |-> "", SecretAccessKey |-> "", Region |-> ""]]
  /\ world = World(<<>>, "", <<>>)
  /\ pc = "idle"
  /\ AuthIdle

NextRepeat ==
  \/ ApplyAnalyzePodCertificates
  \/ AnalysisPodsGetReturns
  \/ AnalysisObjectGetReturns
  \/ ApplyAnalyzePodCertificatesAgain
  \/ AnalysisPodsGetReturnsAgain
  \/ AnalysisObjectGetReturnsAgain
  \/ ApplyGetCertificateExpiryWarnings

\* One analysis of one pod, step by step, followed by a second one or by its
\* warnings.
SpecRepeat == InitRepeat /\ [][NextRepeat]_vars

(***************************************************************************)
(* The requests, the clusters and the surroundings of the handlers         *)
(***************************************************************************)

\* cfg.Kubernetes.DefaultNamespace, as main sets it when none is configured.
DefaultNamespace == "default"

\* "/pod-certificates/"
DetailsPrefix == <<"/", "pod-certificates", "/">>

\* No client yet.
NoClient == [err |-> "", eksDetails |-> NoEKSDetails]

\* The namespaces of a cluster that answers for them, and of one that
\* refuses, and one that lists them and refuses the Get of each.
OpenNamespaces ==
  Namespaces("", <<"default", "kube-system">>, "default" :> [err |-> ""])
ClosedNamespaces == Namespaces("namespaces is forbidden", <<>>, <<>>)
ListedNamespaces ==
  Namespaces("", <<"default">>, "default" :> [err |-> "namespaces is forbidden"])

\* Clusters: one whose namespace "default" lists a pod that is gone when it
\* is fetched and a pod with a secret and a configmap; one that fails to
\* list; one whose only pod has a secret that cannot be fetched, a
\* projected volume, an emptyDir and a volume of another kind; and an empty
\* one.
Clusters ==
  {Cluster(OpenNamespaces,
           "default" :>
             Objects(PodList("", <<"gone-2", "web-0">>,
                             ("gone-2" :> <<Volume(<<"old-tls">>, <<>>)>>)
                               @@ ("web-0" :> <<Volume(<<"web-tls">>, <<>>),
                                                Volume(<<>>, <<"trust">>)>>)),
                     "web-0" :> [err |-> "",
                                 Volumes |-> <<Volume(<<"web-tls">>, <<>>),
                                               Volume(<<>>, <<"trust">>)>>],
                     "web-tls" :> [NoGet EXCEPT !.Data = ("ca.crt" :> OneCertPem)
                                                           @@ ("tls.crt" :> <<Block("CERTIFICATE", 3)>>)],
                     "trust" :> [NoGet EXCEPT !.Data = ("ca.crt" :> <<Block("CERTIFICATE", 2)>>)])),
   Cluster(ClosedNamespaces,
           "default" :> Objects(PodList("pods is forbidden", <<>>, <<>>),
                                <<>>, <<>>, <<>>)),
   Cluster(OpenNamespaces,
           "default" :>
             Objects(PodList("", <<"web-0">>,
                             "web-0" :> <<Volume(<<"web-tls">>, <<>>),
                                          VolumeOf(<<>>, <<>>, TRUE, FALSE),
                                          VolumeOf(<<>>, <<>>, FALSE, TRUE),
                                          Volume(<<>>, <<>>)>>),
                     "web-0" :> [err |-> "",
                                 Volumes |-> <<Volume(<<"web-tls">>, <<>>),
                                               VolumeOf(<<>>, <<>>, TRUE, FALSE),
                                               VolumeOf(<<>>, <<>>, FALSE, TRUE),
                                               Volume(<<>>, <<>>)>>],
                     "web-tls" :> [NoGet EXCEPT !.err = "secrets not found"],
                     <<>>)),
   Cluster(ListedNamespaces, "default" :> NoObjects)}

\* "9999999999", a number of ten digits, and "9223372036854775808", the
\* first number above the largest int.
TenNines == <<"9", "9", "9", "9", "9", "9", "9", "9", "9", "9">>
AboveInt == IntMinText

\* The requests for the details of a pod: the path with no name, with the
\* name, with the name and a closing "/", and with a text before the name.
DetailsRequests ==
  {Request("HandlePodCertificateDetails", DetailsPrefix, "", <<>>),
   Request("HandlePodCertificateDetails", DetailsPrefix \o <<"web-0">>, "", <<>>),
   Request("HandlePodCertificateDetails", DetailsPrefix \o <<"web-0", "/">>, "", <<>>),
   Request("HandlePodCertificateDetails", DetailsPrefix \o <<"default", "/", "web-0">>,
           "", <<>>),
   Request("HandlePodCertificateDetails", DetailsPrefix \o <<"x", "/", "web-0">>,
           "other", <<"2">>),
   Request("HandlePodCertificateDetails", DetailsPrefix \o <<"default", "/", "web-0">>,
           "", TenNines)}

\* The requests for the expiry analysis of a namespace: no threshold, a
\* threshold of 2, texts that are no threshold, another namespace, and
\* thresholds of many digits.
ExpiryRequests ==
  {Request("HandleCertificateExpiry", <<"/", "certificate-expiry">>, "", <<>>),
   Request("HandleCertificateExpiry", <<"/", "certificate-expiry">>, "", <<"2">>),
   Request("HandleCertificateExpiry", <<"/", "certificate-expiry">>, "", <<"-", "1">>),
   Request("HandleCertificateExpiry", <<"/", "certificate-expiry">>, "", <<"3", "d">>),
   Request("HandleCertificateExpiry", <<"/", "certificate-expiry">>, "other", <<"0">>),
   Request("HandleCertificateExpiry", <<"/", "certificate-expiry">>, "", TenNines),
   Request("HandleCertificateExpiry", <<"/", "certificate-expiry">>, "", AboveInt)}

\* The requests for the certificates of the pods of a namespace: with and
\* without the analysis.
PodCertificatesRequests ==
  {Query("HandlePodCertificates", <<"/", "pod-certificates">>, "", <<>>, ""),
   Query("HandlePodCertificates", <<"/", "pod-certificates">>, "", <<>>, "true"),
   Query("HandlePodCertificates", <<"/", "pod-certificates">>, "", <<"2">>, "true"),
   Query("HandlePodCertificates", <<"/", "pod-certificates">>, "other", <<>>, "true"),
   Query("HandlePodCertificates", <<"/", "pod-certificates">>, "", <<"2">>, "1")}

\* The requests for the list of the pods of a namespace.
ListPodsRequests ==
  {Request("ListPodsHandler", <<"/", "list-pods">>, "", <<>>),
   Request("ListPodsHandler", <<"/", "list-pods">>, "other", <<>>)}

\* The requests for the expiry of the cluster CA, and for the cluster CA.
ClusterCARequests ==
  {Request("HandleClusterCACertificateExpiry", <<"/", "cluster-ca-expiry">>, "", <<>>),
   Request("HandleClusterCACertificateExpiry", <<"/", "cluster-ca-expiry">>, "",
           <<"1">>),
   Request("HandleClusterCACertificateExpiry", <<"/", "cluster-ca-expiry">>, "",
           AboveInt),
   Request("ClusterCAHandler", <<"/", "cluster-ca">>, "", <<>>)}

\* The requests whose answer depends on the configuration.
ConfigRequests ==
  {Request("ConnectK8sHandler", <<"/", "connect-k8s">>, "", <<>>),
   Request("DebugHandler", <<"/", "debug">>, "", <<>>),
   Request("TestK8sAuthHandler", <<"/", "test-k8s-auth">>, "", <<>>),
   Request("APIDocsHandler", <<"/", "api-docs">>, "", <<>>)}

\* The requests the pattern "/" takes: the path "/" and a path no other
\* pattern matches.
RootRequests ==
  {Request("RootHandler", <<"/">>, "", <<>>),
   Request("RootHandler", <<"/", "nope">>, "", <<>>)}

\* A kubeconfig whose cluster CA is the certificate that ends at hour 2.
KubeShortLived ==
  KubeConfig("ctx", ClusterDemo,
             ClusterDemo :> KubeCluster(EksServer, TRUE, <<Block("CERTIFICATE", 2)>>, ""),
             <<"token", "-i", "demo">>)

\* The surroundings of the handlers: a kubeconfig with a CA, with a CA that
\* ends soon, with no CA, with itself as the file of its CA, and no
\* kubeconfig path at all.
ServeWorlds ==
  {World(<<>>, "", "/root/.kube/config" :> KubeWithRole),
   World(<<>>, "", "/root/.kube/config" :> KubeShortLived),
   World(<<>>, "", "/root/.kube/config" :> KubeNoCA),
   World(<<EnvEntry("KUBECONFIG", "/etc/kc")>>, "", "/etc/kc" :> KubeSelfCA),
   World(<<>>, "no home", "/root/.kube/config" :> KubeWithRole)}

\* The surroundings of the handlers that ask the cluster for pods: a
\* kubeconfig with a CA, and one with none.
PodWorlds ==
  {World(<<>>, "", "/root/.kube/config" :> KubeWithRole),
   World(<<>>, "", "/root/.kube/config" :> KubeNoCA)}

\* The configurations of the handlers: no static credentials, a key with no
\* secret, and a key with its secret.
ServeConfigs ==
  {[AWS |-> [AccessKeyID |-> "", SecretAccessKey |-> "", Region |-> ""]],
   [AWS |-> [AccessKeyID |-> "AKIACFG", SecretAccessKey |-> "", Region |-> ""]],
   [AWS |-> [AccessKeyID |-> "AKIACFG", SecretAccessKey |-> "cfgsecret",
             Region |-> "us-east-1"]]}

\* No answer yet.
NoResponse == [code |-> 0, body |-> <<>>]

\* What a handler holds for a request that has arrived: the client, the
\* list of the pods and the position in it, the variables of its loop, the
\* pod it analyses (its volumes, the sources so far and the position in
\* the objects to fetch) and the results of its tests; and with them the
\* orders of the ranges, the readings of the clock and the operations it
\* has issued.
Arrived(request) ==
  [request |-> request, pc |-> "arrived", newClient |-> NoClient, clusterCA |-> <<>>,
   list |-> PodList("", <<>>, <<>>), i |-> 0, totals |-> NoTotals, infos |-> NoInfos,
   volumes |-> <<>>, certSources |-> <<>>, v |-> 0, tests |-> <<>>,
   perms |-> <<>>, readings |-> <<>>, ops |-> <<>>, response |-> NoResponse]

\* The orders of a set of keys.
Orders(keys) ==
  {o \in [1..Cardinality(keys) -> keys] : \A i, j \in DOMAIN o : i # j => o[i] # o[j]}

\* The request after the handler answered `a`, having started with the
\* readings `clock`.
Responded(held, newClient, perms, a, clock) ==
  [held EXCEPT !.pc = "responded", !.newClient = newClient, !.perms = perms,
               !.readings = Taken(clock, a.clock), !.ops = a.ops,
               !.response = [code |-> a.code, body |-> a.body]]

\* The readings of the clock of a handler that starts at the hour `t`.
Clocks(t) == {Clock(t, j) : j \in Jumps}

(***************************************************************************)
(* Requests, handled step by step                                          *)
(*                                                                         *)
(* net/http runs each handler in a goroutine of its own. A request holds   *)
(* what its handler declared (the client, the list of pods, the variables  *)
(* of the loop, the map of sources); the cluster and the clock are what    *)
(* the requests have in common. A step of a request is the part of its     *)
(* handler from the return of one call it waits for (k8s.NewClient, a List *)
(* or a Get of the cluster) to the next such call; the hour can turn       *)
(* between any two readings of the clock, once while a request is handled. *)
(***************************************************************************)

\* The goroutines.
Slots == {1, 2}

\* The requests that are handled at the same time.
ConcurrentRequests ==
  {Request("HandleCertificateExpiry", <<"/", "certificate-expiry">>, "", <<>>),
   Request("HandleCertificateExpiry", <<"/", "certificate-expiry">>, "", <<"1">>),
   Request("HandlePodCertificateDetails", DetailsPrefix \o <<"default", "/", "web-0">>,
           "", <<>>),
   Query("HandlePodCertificates", <<"/", "pod-certificates">>, "", <<>>, "true"),
   Request("ListPodsHandler", <<"/", "list-pods">>, "", <<>>),
   Request("ConnectK8sHandler", <<"/", "connect-k8s">>, "", <<>>),
   Request("ClusterCAHandler", <<"/", "cluster-ca">>, "", <<>>),
   Request("HandleClusterCACertificateExpiry", <<"/", "cluster-ca-expiry">>, "", <<>>),
   Request("DebugHandler", <<"/", "debug">>, "", <<>>),
   Request("TestK8sAuthHandler", <<"/", "test-k8s-auth">>, "", <<>>),
   Request("APIDocsHandler", <<"/", "api-docs">>, "", <<>>),
   Request("RootHandler", <<"/">>, "", <<>>)}

\* The cluster the requests are handled against: two pods, the first with
\* a secret and the second with a configmap.
ConcurrentClusters ==
  {Cluster(OpenNamespaces,
           "default" :>
             Objects(PodList("", <<"web-0", "web-1">>,
                             ("web-0" :> <<Volume(<<"web-tls">>, <<>>)>>)
                               @@ ("web-1" :> <<Volume(<<>>, <<"trust">>)>>)),
                     ("web-0" :> [err |-> "", Volumes |-> <<Volume(<<"web-tls">>, <<>>)>>])
                       @@ ("web-1" :> [err |-> "", Volumes |-> <<Volume(<<>>, <<"trust">>)>>]),
                     "web-tls" :> [NoGet EXCEPT !.Data = ("ca.crt" :> OneCertPem)],
                     "trust" :> [NoGet EXCEPT !.Data = ("ca.crt" :> <<Block("CERTIFICATE", 2)>>)]))}

\* The hours that pass while the requests are handled.
MaxTicks == 1

\* The readings of the clock of a step of the request `held` that starts at
\* the hour `t`: the hour turns before any one of them, or not at all; it
\* turns no more after the hour `last`, and once for a request.
StepClocks(held, t, last) ==
  IF t < last /\ ~Turned(held.readings) THEN Clocks(t) \cup {Clock(t, ClockLen)}
  ELSE {Clock(t, ClockLen)}

\* The variables of the loop that the step of the request s reads: the
\* ones of the request of slot 1, whichever request asks.
TotalsOfFirst(requests, s) == requests[1].totals

\* The variables of the loop that the step of the request s reads: the
\* ones its own handler declared.
TotalsOf(requests, s) == requests[s].totals

\* The request after a part of its handler ran with the readings `clock`,
\* left the readings `left` and issued the operations `ops`.
Ran(held, clock, left, ops) ==
  [held EXCEPT !.readings = @ \o Taken(clock, left), !.ops = @ \o ops]

\* The request after its handler wrote the response.
Answers(held, code, body) ==
  [held EXCEPT !.pc = "responded", !.response = [code |-> code, body |-> body]]

\* The request while its handler waits for the call `call` to return.
Awaits(held, call) == [held EXCEPT !.pc = call]

\* The namespace a handler asks for.
NamespaceHeld(held) == NamespaceOf(held.request, DefaultNamespace)

\* The pod a handler analyses: the one the path names, or the one the loop
\* stands at.
PodNameOf(held) ==
  IF held.request.handler = "HandlePodCertificateDetails"
  THEN Split(TrimSlashes(held.request.path))[3]
  ELSE held.list.Items[held.i]

\* A handler from its start to its first call that waits: the handlers of
\* "/", /api-docs and /cluster-ca-expiry answer without one, the others
\* call k8s.NewClient unless they answer before.
Started(held, c, env, home, fs, clock) ==
  LET handler == held.request.handler
      pathParts == Split(TrimSlashes(held.request.path))
      At(a) == Responded(held, NoClient, <<>>, a, clock)
      Read(ca) ==
        IF ca.err # ""
        THEN Answers(held, 500, ErrorBody(<<"Failed to get cluster CA: ", ca.err>>))
        ELSE Awaits([held EXCEPT !.clusterCA = ca.details.ClusterCA], "NewClient")
      Located(kubeconfigPath) ==
        IF kubeconfigPath = ""
        THEN Answers(held, 500, ErrorBody(<<"Could not determine kubeconfig path">>))
        ELSE Read(parseKubeConfigForEKS(kubeconfigPath, fs))
  IN  IF handler = "RootHandler" THEN At(RootHandler(clock))
      ELSE IF handler = "APIDocsHandler"
      THEN At(APIDocsHandler(c, DefaultNamespace, clock))
      ELSE IF handler = "HandleClusterCACertificateExpiry"
      THEN At(HandleClusterCACertificateExpiry(held.request, env, home, fs, clock))
      ELSE IF handler = "HandlePodCertificateDetails"
      THEN IF Len(pathParts) < 3 \/ pathParts[3] = ""
           THEN Answers(held, 400,
                        [error |-> <<"Pod name is required in URL path: /pod-certificates/{pod-name}">>])
           ELSE Awaits(held, "NewClient")
      ELSE IF handler = "ConnectK8sHandler"
      THEN IF ValidateAWSConfig(c) # ""
           THEN Answers(held, 400,
                        ErrorBody(<<"AWS configuration validation failed: ",
                                    ValidateAWSConfig(c)>>))
           ELSE Awaits(held, "NewClient")
      ELSE IF handler = "TestK8sAuthHandler"
      THEN IF ValidateAWSConfig(c) # ""
           THEN Answers(held, 200,
                        [status |-> "failed",
                         tests |-> "aws_config" :> TestFailed(ValidateAWSConfig(c))])
           ELSE Awaits([held EXCEPT !.tests = "aws_config" :> TestPassed], "NewClient")
      ELSE IF handler = "ClusterCAHandler" THEN Located(getKubeconfigPath(env, home))
      ELSE Awaits(held, "NewClient")

\* A handler from the return of k8s.NewClient to its next call that waits.
Created(held, c, newClient) ==
  LET handler == held.request.handler
      built == [held EXCEPT !.newClient = newClient]
      text == <<"Failed to create Kubernetes client: ", newClient.err>>
  IN  IF handler = "DebugHandler" THEN Answers(built, 200, DebugBody(c, newClient))
      ELSE IF handler = "TestK8sAuthHandler"
      THEN IF newClient.err # ""
           THEN Answers(built, 200,
                        [status |-> "failed",
                         tests |-> held.tests
                                     @@ ("k8s_client_creation" :>
                                           TestFailed(newClient.err))])
           ELSE Awaits([built EXCEPT
                          !.tests = @ @@ ("k8s_client_creation" :> TestPassed)],
                       "Namespaces.List")
      ELSE IF newClient.err # ""
      THEN IF handler \in {"HandlePodCertificateDetails", "HandleCertificateExpiry",
                           "HandlePodCertificates"}
           THEN Answers(built, 500, [error |-> text])
           ELSE Answers(built, 500, ErrorBody(text))
      ELSE IF handler = "ClusterCAHandler"
      THEN Answers(built, 200, ClusterCABody(held.clusterCA, newClient.eksDetails))
      ELSE IF handler = "ConnectK8sHandler" THEN Awaits(built, "Namespaces.List")
      ELSE IF handler = "HandlePodCertificateDetails" THEN Awaits(built, "Pods.Get")
      ELSE Awaits(built, "Pods.List")

\* A handler from the return of Namespaces().List to its next call that
\* waits: the connection test of ConnectK8sHandler, and the third test of
\* TestK8sAuthHandler.
NamespacesListed(held, list) ==
  LET issued == [held EXCEPT !.ops = Append(@, ListOp("namespaces", ""))]
  IN  IF held.request.handler = "ConnectK8sHandler"
      THEN IF list.err # ""
           THEN Answers(issued, 401,
                        ErrorBody(<<"Failed to connect to Kubernetes cluster: ",
                                    list.err>>))
           ELSE Answers(issued, 200,
                        ConnectBody(held.newClient.eksDetails, DefaultNamespace))
      ELSE Awaits([issued EXCEPT
                     !.tests = @ @@ ("list_namespaces" :> ListTest(list, ""))],
                  "Namespaces.Get")

\* TestK8sAuthHandler from the return of Namespaces().Get to its next call.
NamespaceGot(held, get) ==
  Awaits([held EXCEPT
            !.ops = Append(@, GetOp("namespaces", "", DefaultNamespace)),
            !.tests = @ @@ ("get_target_namespace" :> GetTest(get, DefaultNamespace))],
         "Pods.List")

\* The namespace whose pods the handler lists: the one of the request, and
\* for TestK8sAuthHandler the configured one and then "default".
ListedNamespace(held) ==
  IF held.request.handler # "TestK8sAuthHandler" THEN NamespaceHeld(held)
  ELSE IF "list_pods_target_namespace" \notin DOMAIN held.tests THEN DefaultNamespace
  ELSE "default"

\* The loop goes on to the next pod, or the handler answers after the last.
PodDone(held) ==
  LET warningDays == WarningDaysOf(held.request.warning_days)
      done == [held EXCEPT !.i = @ + 1, !.volumes = <<>>, !.certSources = <<>>,
                           !.v = 0]
  IN  IF held.i < Len(held.list.Items) THEN Awaits(done, "Pods.Get")
      ELSE IF held.request.handler = "HandleCertificateExpiry"
      THEN Answers(done, 200,
                   ExpiryBody(NamespaceHeld(held), warningDays, held.list.Items,
                              held.totals))
      ELSE Answers(done, 200,
                   InfosBody(NamespaceHeld(held), warningDays, TRUE, held.list.Items,
                             held.infos))

\* A handler from the return of Pods(namespace).List to its next call that
\* waits.
PodsListed(held, list, namespace) ==
  LET handler == held.request.handler
      warningDays == WarningDaysOf(held.request.warning_days)
      detailed == held.request.detailed = "true"
      issued == [held EXCEPT !.ops = Append(@, ListOp("pods", namespace))]
      looping == [issued EXCEPT !.list = list, !.i = 1]
      Tested(tests) == Answers(issued, 200, [status |-> Overall(tests), tests |-> tests])
  IN  IF handler = "TestK8sAuthHandler"
      THEN IF "list_pods_target_namespace" \notin DOMAIN held.tests
           THEN [issued EXCEPT
                   !.tests = @ @@ ("list_pods_target_namespace" :>
                                     ListTest(list, namespace))]
           ELSE Tested(held.tests
                         @@ ("list_pods_default_namespace" :> ListTest(list, "default")))
      ELSE IF handler = "ListPodsHandler"
      THEN IF list.err # ""
           THEN Answers(issued, 500,
                        ErrorBody(<<"Failed to list pods in namespace ", namespace, ": ",
                                    list.err>>))
           ELSE Answers(issued, 200, ListPodsBody(namespace, list.Items))
      ELSE IF list.err # ""
      THEN Answers(issued, 500, [error |-> <<"Failed to list pods: ", list.err>>])
      ELSE IF handler = "HandleCertificateExpiry"
      THEN IF Len(list.Items) = 0
           THEN Answers(looping, 200,
                        ExpiryBody(namespace, warningDays, list.Items, NoTotals))
           ELSE Awaits([looping EXCEPT !.totals = NoTotals], "Pods.Get")
      ELSE IF detailed /\ Len(list.Items) > 0
      THEN Awaits([looping EXCEPT !.infos = NoInfos], "Pods.Get")
      ELSE Answers(looping, 200,
                   InfosBody(namespace, warningDays, detailed, list.Items,
                             [NoInfos EXCEPT
                                !.podCertInfos =
                                  [i \in 1..Len(list.Items) |->
                                     PodCertInfo(list.Items[i], namespace,
                                                 list.Volumes[list.Items[i]])]]))

\* A handler after AnalyzePodCertificates returned the map certSources:
\* the warnings, ranged over the map in the order `perm`, and the rest of
\* the body of the loop, or the response of HandlePodCertificateDetails.
PodAnalysed(held, totals, certSources, perm) ==
  LET handler == held.request.handler
      podName == PodNameOf(held)
      namespace == NamespaceHeld(held)
      warningDays == WarningDaysOf(held.request.warning_days)
      ranged == [held EXCEPT !.perms = Append(@, perm)]
      Warned(warnings) ==
        IF handler = "HandlePodCertificateDetails"
        THEN Answers(ranged, 200,
                     DetailsBody(podName, namespace, warningDays, certSources, warnings))
        ELSE IF handler = "HandleCertificateExpiry"
        THEN PodDone([ranged EXCEPT
                        !.totals =
                          PodStep(totals, podName, [certSources |-> certSources], <<>>,
                                  warnings, getTotalCertificateCount(certSources))])
        ELSE PodDone([ranged EXCEPT
                        !.infos =
                          InfoStep(@, PodCertInfo(podName, namespace,
                                                  held.list.Volumes[podName]),
                                   certSources, <<>>, warnings)])
  IN  Warned(GetCertificateExpiryWarnings(certSources, Threshold(warningDays), perm))

\* A handler after AnalyzePodCertificates returned the error `err`.
NotAnalysed(held, err) ==
  LET handler == held.request.handler
      podName == PodNameOf(held)
      unranged == [held EXCEPT !.perms = Append(@, <<>>)]
  IN  IF handler = "HandlePodCertificateDetails"
      THEN Answers(held, 500,
                   [error |-> <<"Failed to analyze certificates for pod ", podName,
                                ": ", err>>])
      ELSE IF handler = "HandleCertificateExpiry" THEN PodDone(unranged)
      ELSE PodDone([unranged EXCEPT
                      !.infos =
                        InfoSkip(@, PodCertInfo(podName, NamespaceHeld(held),
                                                held.list.Volumes[podName]),
                                 <<>>)])

\* AnalyzePodCertificates from the return of Pods(namespace).Get to its
\* next call that waits: the error of the Get, or the cluster CA of the
\* client and the first object of the volumes.
PodGot(held, totals, get, ca, clock, perm) ==
  LET podName == PodNameOf(held)
      namespace == NamespaceHeld(held)
      issued == [held EXCEPT !.ops = Append(@, GetOp("pods", namespace, podName))]
      Parsed(parsed, certSources) ==
        IF Len(VolumeOps(get.Volumes, namespace, 1)) = 0
        THEN PodAnalysed(parsed, totals, certSources, perm)
        ELSE Awaits([parsed EXCEPT !.volumes = get.Volumes,
                                   !.certSources = certSources, !.v = 1],
                    "Objects.Get")
  IN  IF get.err # "" THEN NotAnalysed(issued, "failed to get pod " \o podName)
      ELSE Parsed(Ran(issued, clock, ca.clock, <<>>),
                  IF ca.err = "" THEN "cluster-ca" :> ca.source ELSE <<>>)

\* AnalyzePodCertificates from the return of the Get of a secret or of a
\* configmap to its next call that waits: the certificates of the object,
\* stored under its key.
ObjectGot(held, objects, clock) ==
  LET op == VolumeOps(held.volumes, NamespaceHeld(held), 1)[held.v]
      Stored(k) ==
        [Ran(held, clock, k.clock, <<op>>) EXCEPT
           !.certSources = Store(@, k.key, k.source), !.v = @ + 1]
  IN  Stored(ObjectSource(op, objects, NamespaceHeld(held), clock))

\* The request s goes on to `next`: the clock is at the last reading the
\* step took, and the cluster has served the operations the step issued.
Step(s, next) ==
  /\ reqs' = [reqs EXCEPT ![s] = next]
  /\ now' = IF Len(next.readings) > Len(reqs[s].readings)
            THEN next.readings[Len(next.readings)] ELSE now
  /\ cluster' = Effects(cluster, SubSeq(next.ops, Len(reqs[s].ops) + 1, Len(next.ops)))
  /\ UNCHANGED <<pc, authVars, input, cpc, output, expiryVars, podVars>>

\* The handler of the request s starts.
Start(s, last) ==
  /\ reqs[s].pc = "arrived"
  /\ \E clock \in StepClocks(reqs[s], now, last) :
       \E next \in {Started(reqs[s], cfg, world.environ, world.home, world.fs, clock)} :
         Step(s, next)

\* k8s.NewClient returns to the handler of the request s.
NewClientReturns(s) ==
  /\ reqs[s].pc = "NewClient"
  /\ \E newClient \in NewClientOutcomes(world.environ, world.home, world.fs) :
       \E next \in {Created(reqs[s], cfg, newClient)} : Step(s, next)

\* Namespaces().List returns.
NamespacesListReturns(s) ==
  /\ reqs[s].pc = "Namespaces.List"
  /\ \E next \in {NamespacesListed(reqs[s], cluster.namespaces.list)} : Step(s, next)

\* Namespaces().Get returns.
NamespacesGetReturns(s) ==
  /\ reqs[s].pc = "Namespaces.Get"
  /\ \E next \in {NamespaceGot(reqs[s], NamespaceOfCluster(cluster, DefaultNamespace))} :
       Step(s, next)

\* Pods(namespace).List returns.
PodsListReturns(s) ==
  /\ reqs[s].pc = "Pods.List"
  /\ \E namespace \in {ListedNamespace(reqs[s])} :
       \E next \in {PodsListed(reqs[s], ObjectsOf(cluster, namespace).list, namespace)} :
         Step(s, next)

\* Pods(namespace).Get returns.
PodsGetReturns(s, last) ==
  /\ reqs[s].pc = "Pods.Get"
  /\ \E clock \in StepClocks(reqs[s], now, last) :
       \E get \in {PodObjects(ObjectsOf(cluster, NamespaceHeld(reqs[s])),
                              reqs[s].newClient.eksDetails.ClusterCA,
                              PodNameOf(reqs[s])).get},
          ca \in {GetClusterCACertificateInfo(reqs[s].newClient.eksDetails.ClusterCA,
                                              clock)} :
         \E perm \in Orders(IF ca.err = "" THEN {"cluster-ca"} ELSE {}) :
           \E next \in {PodGot(reqs[s], TotalsOf(reqs, s), get, ca, clock, perm)} :
             Step(s, next)

\* Secrets(namespace).Get or ConfigMaps(namespace).Get returns; after the
\* last object of the pod, the handler ranges over the map of sources.
ObjectGetReturns(s, last) ==
  /\ reqs[s].pc = "Objects.Get"
  /\ \E clock \in StepClocks(reqs[s], now, last) :
       \E got \in {ObjectGot(reqs[s], ObjectsOf(cluster, NamespaceHeld(reqs[s])),
                             clock)} :
         IF got.v > Len(VolumeOps(got.volumes, NamespaceHeld(got), 1))
         THEN \E perm \in Orders(DOMAIN got.certSources) :
                \E next \in {PodAnalysed(got, TotalsOf(reqs, s), got.certSources, perm)} :
                  Step(s, next)
         ELSE Step(s, got)

InitServe ==
  /\ \/ /\ \E request \in DetailsRequests \cup ExpiryRequests
                            \cup PodCertificatesRequests \cup ListPodsRequests :
             reqs = 1 :> Arrived(request)
        /\ cluster \in Clusters
        /\ world \in PodWorlds
        /\ cfg \in {c \in ServeConfigs : c.AWS.AccessKeyID = ""}
     \/ /\ \E request \in ClusterCARequests : reqs = 1 :> Arrived(request)
        /\ cluster = Cluster(ListedNamespaces, "default" :> NoObjects)
        /\ world \in ServeWorlds
        /\ cfg \in {c \in ServeConfigs : c.AWS.AccessKeyID = ""}
     \/ /\ \E request \in ConfigRequests \cup RootRequests :
             reqs = 1 :> Arrived(request)
        /\ cluster \in Clusters
        /\ world = World(<<>>, "", "/root/.kube/config" :> KubeWithRole)
        /\ cfg \in ServeConfigs
  /\ now \in 0..MaxNow
  /\ input = NoInput
  /\ cpc = "idle"
  /\ output = NoOutput
  /\ ExpiryIdle
  /\ PodIdle
  /\ pc = "idle"
  /\ AuthIdle

\* The steps of the one request: the hour can turn at any hour it starts at.
NextServe ==
  \/ Start(1, MaxNow + 1)
  \/ NewClientReturns(1)
  \/ NamespacesListReturns(1)
  \/ NamespacesGetReturns(1)
  \/ PodsListReturns(1)
  \/ PodsGetReturns(1, MaxNow + 1)
  \/ ObjectGetReturns(1, MaxNow + 1)

\* One request to one handler, from its arrival to its answer.
SpecServe == InitServe /\ [][NextServe]_vars

InitConcurrent ==
  /\ reqs \in [Slots -> {Arrived(request) : request \in ConcurrentRequests}]
  /\ cluster \in ConcurrentClusters
  /\ world = World(<<>>, "", "/root/.kube/config" :> KubeWithRole)
  /\ now = 0
  /\ input = NoInput
  /\ cpc = "idle"
  /\ output = NoOutput
  /\ ExpiryIdle
  /\ PodIdle
  /\ cfg = [AWS |-> [AccessKeyID |-> "", SecretAccessKey |-> "", Region |-> ""]]
  /\ pc = "idle"
  /\ AuthIdle

NextConcurrent ==
  \/ \E s \in Slots : Start(s, MaxTicks)
  \/ \E s \in Slots : NewClientReturns(s)
  \/ \E s \in Slots : NamespacesListReturns(s)
  \/ \E s \in Slots : NamespacesGetReturns(s)
  \/ \E s \in Slots : PodsListReturns(s)
  \/ \E s \in Slots : PodsGetReturns(s, MaxTicks)
  \/ \E s \in Slots : ObjectGetReturns(s, MaxTicks)

\* Two requests at the same time, in every interleaving of their steps.
SpecConcurrent == InitConcurrent /\ [][NextConcurrent]_vars

(***************************************************************************)
(* Properties of client construction (Spec)                                *)
(***************************************************************************)

\* The positions in `calls` of the calls of `op`.
Idx(op) == {i \in DOMAIN calls : calls[i].op = op}

\* How many times `op` was called so far.
Count(op) == Cardinality(Idx(op))

HelperFailed == helper.returned /\ helper.err # ""
FallbackSucceeded == fallback.returned /\ fallback.err = ""
FallbackFailed == fallback.returned /\ fallback.err # ""

\* C1, as the specification words it: in every construction the helper
\* strategy is invoked exactly once and is the first call; the fallback
\* strategy is invoked at most once and only after the helper returned an
\* error; no strategy is invoked a second time.
C1_HelperExactlyOnceAndFirst ==
  /\ Count("GenerateTokenUsingAuthenticator") <= 1
  /\ Count("GenerateToken") <= 1
  /\ Len(calls) > 0 => calls[1].op = "GenerateTokenUsingAuthenticator"
  /\ Count("GenerateToken") = 1 => HelperFailed
  /\ pc = "done" => Count("GenerateTokenUsingAuthenticator") = 1

\* C1, amended: a construction that gets past the reading of the kubeconfig
\* invokes the helper strategy exactly once and first, and the fallback at
\* most once and only after the helper returned an error; a construction
\* whose kubeconfig cannot be read ends before either strategy is invoked;
\* no strategy is invoked a second time.
C1_StrategyOrder ==
  /\ Count("GenerateTokenUsingAuthenticator") <= 1
  /\ Count("GenerateToken") <= 1
  /\ Len(calls) > 0 => calls[1].op = "GenerateTokenUsingAuthenticator"
  /\ Count("GenerateToken") = 1 => HelperFailed
  /\ pc \in {"fallback", "assume", "identity", "presign", "clientset"}
       => Count("GenerateTokenUsingAuthenticator") = 1
  /\ pc = "done" =>
       IF result.err = "failed to parse kubeconfig for EKS details"
       THEN calls = <<>>
       ELSE Count("GenerateTokenUsingAuthenticator") = 1

\* A construction that ended after the helper failed and the fallback was
\* invoked.
C1_Witness ==
  /\ pc = "done"
  /\ Count("GenerateTokenUsingAuthenticator") = 1
  /\ Count("GenerateToken") = 1
  /\ HelperFailed
  /\ calls[2].op = "GenerateToken"

\* The helper's output has the shape {"status": {"token": <string>}}.
ShapeMatches(doc) ==
  doc.top = "object" /\ doc.status = "object" /\ doc.token = "string"

\* C2: a helper output that does not have the shape {"status": {"token":
\* ...}} makes the helper strategy return an error, and the helper strategy
\* never returns success with an empty token.
C2_HelperOutputShapeChecked ==
  helper.returned =>
    /\ (answers.run.err = "" /\ ~ShapeMatches(answers.run.output)) => helper.err # ""
    /\ helper.err = "" => helper.token # <<>>

\* The bearer token of the client NewClient returned.
BearerToken == result.client[1].config.BearerToken

\* C3, as the specification words it: when the helper fails and the fallback
\* succeeds NewClient succeeds with the fallback's token as bearer token;
\* when both fail NewClient returns an error and no client.
C3_HelperFailureNeverFatal ==
  (HelperFailed /\ pc = "done") =>
    /\ fallback.returned
    /\ FallbackSucceeded =>
         /\ result.err = ""
         /\ Len(result.client) = 1
         /\ BearerToken = fallback.token
    /\ FallbackFailed => result.err # "" /\ result.client = <<>>

\* C3, amended: when the helper fails the fallback is tried; when it
\* succeeds NewClient goes on with the fallback's token and returns a client
\* that carries it as bearer token, unless the creation of the clientset
\* fails, which is then the error it returns; when both strategies fail
\* NewClient returns the token error and no client.
C3_FallbackTokenUsed ==
  HelperFailed =>
    /\ pc = "fallback" \/ Count("GenerateToken") = 1
    /\ pc = "done" => fallback.returned
    /\ FallbackSucceeded =>
         /\ token = fallback.token
         /\ pc = "done" =>
              IF answers.clientset.err = ""
              THEN /\ result.err = ""
                   /\ Len(result.client) = 1
                   /\ BearerToken = fallback.token
              ELSE /\ result.err = "failed to create Kubernetes clientset"
                   /\ result.client = <<>>
    /\ FallbackFailed =>
         /\ pc = "done"
         /\ result.err = "failed to generate EKS token"
         /\ result.client = <<>>

\* The helper failed, the fallback succeeded, and NewClient returned a client
\* with the fallback's token.
C3_Witness ==
  /\ pc = "done"
  /\ HelperFailed
  /\ FallbackSucceeded
  /\ result.err = ""
  /\ Len(result.client) = 1
  /\ BearerToken = fallback.token
  /\ fallback.token # <<>>

\* What follows "k8s-aws-v1." in the fallback's token.
Encoded == SubSeq(fallback.token, Len(TokenPrefix) + 1, Len(fallback.token))

\* "X-K8s-Aws-Id=<clusterName>" as bytes.
ClusterIdParameter == Bytes(ClusterIdHeader \o <<"=">> \o eksDetails.ClusterName)

\* C4, as the specification words it: a token of the fallback is
\* "k8s-aws-v1." followed by unpadded URL-safe base64, and the URL the
\* base64 decodes to contains "X-K8s-Aws-Id=<cluster name>".
C4_TokenCarriesClusterName ==
  FallbackSucceeded =>
    /\ HasPrefix(fallback.token, TokenPrefix)
    /\ DecodeString(Encoded).err = ""
    /\ Contains(DecodeString(Encoded).bytes, ClusterIdParameter)

\* C4, amended: a token of the fallback is "k8s-aws-v1." followed by
\* unpadded URL-safe base64 of a URL that begins with the presigned URL and
\* contains "X-K8s-Aws-Id"; the URL contains "X-K8s-Aws-Id=<cluster name>"
\* when the presigned URL did not contain the text "X-K8s-Aws-Id", and is
\* the presigned URL itself when it did.
C4_TokenCarriesClusterNameUnlessPresent ==
  FallbackSucceeded =>
    /\ HasPrefix(fallback.token, TokenPrefix)
    /\ DecodeString(Encoded).err = ""
    /\ HasPrefix(DecodeString(Encoded).bytes, Bytes(answers.presign.URL))
    /\ Contains(DecodeString(Encoded).bytes, Bytes(ClusterIdHeader))
    /\ IF Contains(answers.presign.URL, ClusterIdHeader)
       THEN DecodeString(Encoded).bytes = Bytes(answers.presign.URL)
       ELSE Contains(DecodeString(Encoded).bytes, ClusterIdParameter)

\* The fallback built a token from a presigned URL that had a query string
\* and no "X-K8s-Aws-Id", and the token decodes to a URL with the parameter.
C4_Witness ==
  /\ FallbackSucceeded
  /\ ~Contains(answers.presign.URL, ClusterIdHeader)
  /\ Contains(answers.presign.URL, <<"?">>)
  /\ Contains(DecodeString(Encoded).bytes, <<38>> \o ClusterIdParameter)

\* The temporary credentials AssumeRole returned.
TemporaryCredentials ==
  [Source |-> "static", AccessKeyID |-> answers.assume.AccessKeyId,
   SecretAccessKey |-> answers.assume.SecretAccessKey,
   SessionToken |-> answers.assume.SessionToken]

\* The calls of the fallback are in the order of C5: AssumeRole is called at
\* most once and never without a role; with a role the identity check and
\* the presigning come after one successful AssumeRole and use the
\* credentials it returned, session token included; without a role both use
\* the credentials the configuration was loaded with.
AssumeRoleBeforeIdentityCheck ==
  /\ Count("AssumeRole") <= 1
  /\ eksDetails.RoleARN = "" => Count("AssumeRole") = 0
  /\ \A i \in Idx("GetCallerIdentity") \cup Idx("PresignGetCallerIdentity") :
       IF eksDetails.RoleARN # ""
       THEN /\ Count("AssumeRole") = 1
            /\ \A j \in Idx("AssumeRole") : j < i
            /\ \A j \in Idx("GetCallerIdentity") : j <= i
            /\ answers.assume.err = ""
            /\ calls[i].creds = TemporaryCredentials
            /\ calls[i].creds.SessionToken # ""
       ELSE \A j \in Idx("LoadDefaultConfig") :
              j < i /\ calls[i].creds = calls[j].creds

\* C5, as the specification words it: a fallback that has returned with a
\* role has called AssumeRole exactly once, before the identity check, and
\* the identity check and the presigning used the credentials it returned;
\* without a role AssumeRole is never called and both use the credentials
\* the configuration was loaded with.
C5_AssumeRoleExactlyOnce ==
  /\ AssumeRoleBeforeIdentityCheck
  /\ (fallback.returned /\ eksDetails.RoleARN # "") => Count("AssumeRole") = 1

\* C5, amended: a fallback that has returned with a role has called
\* AssumeRole exactly once when the configuration was loaded, and not at all
\* when loading it failed; AssumeRole comes after the load and before the
\* identity check, and the identity check and the presigning use the
\* credentials it returned; without a role AssumeRole is never called and
\* both use the credentials the configuration was loaded with.
C5_AssumeRoleOnceAfterLoad ==
  /\ AssumeRoleBeforeIdentityCheck
  /\ (fallback.returned /\ eksDetails.RoleARN # "")
       => Count("AssumeRole") = IF answers.load.err = "" THEN 1 ELSE 0
  /\ \A j \in Idx("AssumeRole") :
       /\ answers.load.err = ""
       /\ \A k \in Idx("LoadDefaultConfig") : k < j

\* A fallback with a role that went through AssumeRole, the identity check
\* and the presigning.
C5_Witness ==
  /\ eksDetails.RoleARN # ""
  /\ Count("AssumeRole") = 1
  /\ Count("GetCallerIdentity") = 1
  /\ Count("PresignGetCallerIdentity") = 1
  /\ FallbackSucceeded

\* The fallback returned an error and an empty token, and NewClient stopped.
FallbackStopped ==
  /\ FallbackFailed
  /\ fallback.token = <<>>
  /\ token = <<>>
  /\ pc = "done"
  /\ ~answers.clientset.asked
  /\ result.client = <<>>

\* C6: a failure of a step of the fallback (loading the configuration,
\* assuming the role, the identity check, the presigning) ends the fallback
\* with an error and an empty token, and no later step is executed.
C6_FallbackStopsAtFirstFailure ==
  /\ answers.load.err # "" =>
       /\ FallbackStopped
       /\ ~answers.assume.asked /\ ~answers.identity.asked /\ ~answers.presign.asked
       /\ calls[Len(calls)].op = "LoadDefaultConfig"
  /\ answers.assume.err # "" =>
       /\ FallbackStopped
       /\ ~answers.identity.asked /\ ~answers.presign.asked
       /\ calls[Len(calls)].op = "AssumeRole"
  /\ answers.identity.err # "" =>
       /\ FallbackStopped
       /\ ~answers.presign.asked
       /\ calls[Len(calls)].op = "GetCallerIdentity"
  /\ answers.presign.err # "" =>
       /\ FallbackStopped
       /\ calls[Len(calls)].op = "PresignGetCallerIdentity"
  /\ FallbackFailed => fallback.token = <<>>

\* The identity check failed after a role was assumed.
C6_Witness ==
  /\ answers.assume.asked
  /\ answers.assume.err = ""
  /\ answers.identity.err # ""
  /\ FallbackFailed

\* C7: the configured key pair is used exactly when the access key and the
\* secret are both non-empty; otherwise the fallback loads the default
\* credential chain and the helper process gets the inherited environment
\* unmodified.
C7_StaticCredentialsWhenBothSet ==
  /\ \A i \in Idx("LoadDefaultConfig") :
       IF cfg.AWS.AccessKeyID # "" /\ cfg.AWS.SecretAccessKey # ""
       THEN /\ calls[i].creds.Source = "static"
            /\ calls[i].creds.AccessKeyID = cfg.AWS.AccessKeyID
            /\ calls[i].creds.SecretAccessKey = cfg.AWS.SecretAccessKey
       ELSE calls[i].creds = DefaultChain
  /\ helper.returned =>
       IF cfg.AWS.AccessKeyID # "" /\ cfg.AWS.SecretAccessKey # ""
       THEN /\ Getenv(helperCall.env, "AWS_ACCESS_KEY_ID") = cfg.AWS.AccessKeyID
            /\ Getenv(helperCall.env, "AWS_SECRET_ACCESS_KEY") = cfg.AWS.SecretAccessKey
       ELSE helperCall.env = world.environ

\* The access key is configured and the secret is not: the helper ran with
\* the inherited environment, which names another access key, and the
\* fallback loaded the default chain.
C7_Witness ==
  /\ cfg.AWS.AccessKeyID # ""
  /\ cfg.AWS.SecretAccessKey = ""
  /\ helper.returned
  /\ Getenv(helperCall.env, "AWS_ACCESS_KEY_ID") = "AKIAENV"
  /\ \E i \in Idx("LoadDefaultConfig") : calls[i].creds = DefaultChain

(***************************************************************************)
(* Properties of the certificate operations (SpecCert)                     *)
(***************************************************************************)

\* A PEM block of type CERTIFICATE whose content is a certificate.
IsCertificate(item) ==
  item.kind = "block" /\ item.type = "CERTIFICATE" /\ item.der \in 1..Len(X509Certs)

IsBlock(item) == item.kind = "block"

\* The record `rec` is the one of the certificate in `item`.
RecordOf(rec, item) ==
  /\ rec.SerialNumber = ToString(X509Certs[item.der].SerialNumber)
  /\ rec.NotAfter = X509Certs[item.der].NotAfter
  /\ HasPrefix(rec.Subject, NameString(X509Certs[item.der].Subject))

\* The records `recs` are those of the certificates `items`, in order.
RecordsOf(recs, items) ==
  /\ Len(recs) = Len(items)
  /\ \A i \in 1..Len(items) : RecordOf(recs[i], items[i])

\* C8: ParseCertificate returns a record exactly when the input holds one
\* PEM block, of type CERTIFICATE, whose content is a certificate; on every
\* other input (no block, a block of another type, a malformed certificate,
\* more than one block) it returns an error and no record.
C8_SingleCertificateOnly ==
  output.op = "ParseCertificate" =>
    IF /\ Len(SelectSeq(input.pem, IsBlock)) = 1
       /\ IsCertificate(SelectSeq(input.pem, IsBlock)[1])
    THEN /\ output.err = ""
         /\ RecordsOf(output.certs, SelectSeq(input.pem, IsBlock))
    ELSE /\ output.err # ""
         /\ output.certs = <<>>

\* C9: ParseCertificateBundle returns, in input order, one record for each
\* CERTIFICATE block whose content is a certificate, skipping the other
\* blocks, and returns an error exactly when that list is empty.
C9_BundleKeepsDecodableCertificates ==
  output.op = "ParseCertificateBundle" =>
    /\ (output.err # "") = (SelectSeq(input.pem, IsCertificate) = <<>>)
    /\ RecordsOf(output.certs, SelectSeq(input.pem, IsCertificate))

\* A bundle of three blocks whose middle one is corrupted gave two records,
\* those of the first and the third certificate.
C9_Witness ==
  /\ output.op = "ParseCertificateBundle"
  /\ input.pem = <<Block("CERTIFICATE", 2), Block("CERTIFICATE", 0),
                   Block("CERTIFICATE", 3)>>
  /\ output.err = ""
  /\ Len(output.certs) = 2
  /\ output.certs[1].SerialNumber = "2"
  /\ output.certs[2].SerialNumber = "3"

\* A concatenation of two or more well-formed certificates.
WellFormedBundle(p) == Len(p) >= 2 /\ \A i \in 1..Len(p) : IsCertificate(p[i])

\* The record was read under the key `k` of a secret or configmap.
ReadFromKey(rec, k) == rec.Subject[Len(rec.Subject) - 1] = k

\* The records of `output` read under the key `k`, in order.
RecordsFromKey(k) == SelectSeq(output.certs, LAMBDA rec : ReadFromKey(rec, k))

\* The value the configmap scan reads under `k`: Data before BinaryData.
ConfigMapValue(k) ==
  IF k \in DOMAIN input.get.Data THEN input.get.Data[k] ELSE input.get.BinaryData[k]

\* C10: when the trust anchor of the cluster, or the value of a candidate
\* key of a secret or configmap, is a concatenation of N >= 2 well-formed
\* certificates, the source holds N records for it, in input order.
C10_BundleValuesYieldAllRecords ==
  /\ (output.op = "GetClusterCACertificateInfo" /\ WellFormedBundle(input.pem)) =>
       /\ output.err = ""
       /\ RecordsOf(output.source.Certificates, input.pem)
  /\ output.op = "ExtractCertificatesFromSecret" =>
       \A k \in DOMAIN input.get.Data :
         ((\E i \in DOMAIN SecretCertKeys : SecretCertKeys[i] = k)
            /\ WellFormedBundle(input.get.Data[k]))
           => RecordsOf(RecordsFromKey(k), input.get.Data[k])
  /\ output.op = "ExtractCertificatesFromConfigMap" =>
       \A k \in DOMAIN input.get.Data \cup DOMAIN input.get.BinaryData :
         ((\E i \in DOMAIN ConfigMapCertKeys : ConfigMapCertKeys[i] = k)
            /\ WellFormedBundle(ConfigMapValue(k)))
           => RecordsOf(RecordsFromKey(k), ConfigMapValue(k))

\* `d` is `h` hours in days, truncated toward zero.
TruncatedDays(d, h) ==
  \/ h >= 0 /\ d >= 0 /\ 24 * d <= h /\ h < 24 * d + 24
  \/ h < 0 /\ d <= 0 /\ 24 * d >= h /\ h > 24 * d - 24

\* `h` hours as a Duration holds them: at most 2^63 - 1 nanoseconds either way.
Clamped(h) ==
  IF h > MaxDuration THEN MaxDuration ELSE IF h < -MaxDuration THEN -MaxDuration ELSE h

\* C11, as the specification words it: every record an operation returned
\* took one clock reading; its DaysUntilExp is (NotAfter - reading) in hours
\* divided by 24 and truncated toward zero, and its IsExpired is
\* (reading > NotAfter).
C11_ExpiryFieldsFromOneReading ==
  cpc = "done" =>
    /\ Len(output.readings) = Len(output.certs)
    /\ \A i \in 1..Len(output.certs) :
         /\ TruncatedDays(output.certs[i].DaysUntilExp,
                          output.certs[i].NotAfter - output.readings[i])
         /\ output.certs[i].IsExpired = (output.readings[i] > output.certs[i].NotAfter)

\* C11, amended: the same, with the difference NotAfter - reading taken as a
\* Duration holds it, which is at most 2^63 - 1 nanoseconds (2562047 hours,
\* about 292 years) either way, so that DaysUntilExp is at most 106751.
C11_ExpiryFieldsFromOneClampedReading ==
  cpc = "done" =>
    /\ Len(output.readings) = Len(output.certs)
    /\ \A i \in 1..Len(output.certs) :
         /\ TruncatedDays(output.certs[i].DaysUntilExp,
                          Clamped(output.certs[i].NotAfter - output.readings[i]))
         /\ output.certs[i].IsExpired = (output.readings[i] > output.certs[i].NotAfter)

\* A record of a certificate that is valid for longer than a Duration holds:
\* it is not expired and has 106751 days.
C11_Witness ==
  /\ cpc = "done"
  /\ \E i \in 1..Len(output.certs) :
       /\ output.certs[i].NotAfter - output.readings[i] > MaxDuration
       /\ output.certs[i].DaysUntilExp = 106751
       /\ ~output.certs[i].IsExpired

\* C12, as the specification words it: an expired record has a negative
\* DaysUntilExp.
C12_ExpiredHasNegativeDays ==
  cpc = "done" =>
    \A i \in 1..Len(output.certs) :
      output.certs[i].IsExpired => output.certs[i].DaysUntilExp < 0

\* C12, amended: an expired record has a DaysUntilExp of zero or less; it is
\* 0 when the certificate expired less than 24 hours before the reading and
\* negative when it expired 24 hours or more before it.
C12_ExpiredHasNoDaysLeft ==
  cpc = "done" =>
    \A i \in 1..Len(output.certs) :
      output.certs[i].IsExpired =>
        /\ output.certs[i].DaysUntilExp <= 0
        /\ (output.certs[i].DaysUntilExp = 0)
             = (output.readings[i] - output.certs[i].NotAfter < 24)

\* A record of a certificate that expired an hour before the reading: it is
\* expired and has 0 days.
C12_Witness ==
  /\ cpc = "done"
  /\ \E i \in 1..Len(output.certs) :
       /\ output.certs[i].IsExpired
       /\ output.readings[i] - output.certs[i].NotAfter = 1
       /\ output.certs[i].DaysUntilExp = 0

(***************************************************************************)
(* Properties of the expiry reports (SpecExpiry)                           *)
(***************************************************************************)

\* The record is expired or within the threshold of the report.
Flagged(cert) == cert.IsExpired \/ cert.DaysUntilExp <= args.warningDays

\* The warning is the one of the record: "has EXPIRED on" with its subject
\* and date when it is expired, "expires in" with its days otherwise.
WarningOf(warning, cert) ==
  IF cert.IsExpired
  THEN warning = <<"Certificate '">> \o cert.Subject
                   \o <<"' has EXPIRED on ", DateString(cert.NotAfter)>>
  ELSE warning = <<"Certificate '">> \o cert.Subject
                   \o <<"' expires in ", ToString(cert.DaysUntilExp), " days (",
                        DateString(cert.NotAfter), ")">>

\* C13: ValidateCertificateExpiry returns, in list order, one warning for
\* each record that is expired or has DaysUntilExp <= warningDays, the
\* "has EXPIRED on" one when the record is expired and the "expires in" one
\* otherwise, and nothing for the other records.
C13_WarningsFollowFlaggedRecords ==
  ret.op = "ValidateCertificateExpiry" =>
    /\ Len(ret.warnings) = Len(SelectSeq(args.certs, Flagged))
    /\ \A i \in 1..Len(ret.warnings) :
         WarningOf(ret.warnings[i], SelectSeq(args.certs, Flagged)[i])

\* An expired record after a record that is not within the threshold, and a
\* record on the threshold alone: one warning each.
C13_Witness ==
  /\ ret.op = "ValidateCertificateExpiry"
  /\ Len(args.certs) = 2
  /\ ~Flagged(args.certs[1])
  /\ args.certs[2].IsExpired
  /\ Len(ret.warnings) = 1
  /\ ret.warnings[1][Len(ret.warnings[1]) - 1] = "' has EXPIRED on "

\* C14: getExpiryStatusSummary returns "EXPIRED" whenever a record of the
\* list is expired, wherever it stands and whatever the other records are.
C14_ExpiredWhereverItStands ==
  (ret.op = "getExpiryStatusSummary"
     /\ \E i \in 1..Len(args.certs) : args.certs[i].IsExpired)
    => ret.text = "EXPIRED"

\* The records before position i are neither expired nor within the threshold.
NoneFlaggedBefore(i) == \A j \in 1..(i - 1) : ~Flagged(args.certs[j])

\* C15: getExpiryStatusSummary returns "No certificates found" exactly for
\* the empty list; with no expired record and some record within the
\* threshold, "EXPIRES SOON (N days)" for the first such record; with no
\* record expired or within the threshold, "VALID (N days remaining)" with
\* N the least DaysUntilExp, which is above the threshold.
C15_SummaryOfUnexpiredRecords ==
  ret.op = "getExpiryStatusSummary" =>
    /\ (ret.text = "No certificates found") = (args.certs = <<>>)
    /\ (\A i \in 1..Len(args.certs) : ~args.certs[i].IsExpired) =>
         /\ \A i \in 1..Len(args.certs) :
              (Flagged(args.certs[i]) /\ NoneFlaggedBefore(i)) =>
                ret.text = "EXPIRES SOON (" \o ToString(args.certs[i].DaysUntilExp)
                             \o " days)"
         /\ (args.certs # <<>> /\ \A i \in 1..Len(args.certs) : ~Flagged(args.certs[i])) =>
              \E i \in 1..Len(args.certs) :
                /\ \A j \in 1..Len(args.certs) :
                     args.certs[i].DaysUntilExp <= args.certs[j].DaysUntilExp
                /\ args.certs[i].DaysUntilExp > args.warningDays
                /\ ret.text = "VALID (" \o ToString(args.certs[i].DaysUntilExp)
                                \o " days remaining)"

\* Two records above the threshold, the second the nearer to its expiry: the
\* summary names the days of the second.
C15_Witness ==
  /\ ret.op = "getExpiryStatusSummary"
  /\ Len(args.certs) = 2
  /\ args.warningDays = 30
  /\ args.certs[1].DaysUntilExp = 106751
  /\ args.certs[2].DaysUntilExp = 33
  /\ ret.text = "VALID (33 days remaining)"

\* C16: formatDuration returns "Expired" exactly for d < 0; otherwise, with
\* days the whole days and hours the whole hours mod 24, the years form for
\* days > 365, the months form for 30 < days <= 365, the days form for
\* 0 < days <= 30 and "<hours> hours" for days = 0, each remainder clause
\* left out when it is 0; 400 days give "1 years, 35 days", 365 days the
\* months form and 30 days "30 days".
C16_FormatDurationForms ==
  ret.op = "formatDuration" =>
    LET days == args.d \div 24
        hours == args.d % 24
    IN  /\ (ret.text = "Expired") = (args.d < 0)
        /\ (args.d >= 0 /\ days > 365) =>
             ret.text = ToString(days \div 365) \o " years"
                          \o (IF days % 365 = 0 THEN ""
                              ELSE ", " \o ToString(days % 365) \o " days")
        /\ (args.d >= 0 /\ 30 < days /\ days <= 365) =>
             ret.text = ToString(days \div 30) \o " months"
                          \o (IF days % 30 = 0 THEN ""
                              ELSE ", " \o ToString(days % 30) \o " days")
        /\ (args.d >= 0 /\ 0 < days /\ days <= 30) =>
             ret.text = ToString(days) \o " days"
                          \o (IF hours = 0 THEN "" ELSE ", " \o ToString(hours) \o " hours")
        /\ (args.d >= 0 /\ days = 0) => ret.text = ToString(hours) \o " hours"
        /\ args.d = 24 * 400 => ret.text = "1 years, 35 days"
        /\ args.d = 24 * 365 => ret.text = "12 months, 5 days"
        /\ args.d = 24 * 30 => ret.text = "30 days"
        /\ args.d = 24 * 40 => ret.text = "1 months, 10 days"
        /\ args.d = 24 * 5 + 3 => ret.text = "5 days, 3 hours"
        /\ args.d = 7 => ret.text = "7 hours"

\* A Duration of exactly 365 days, formatted in months.
C16_Witness ==
  /\ ret.op = "formatDuration"
  /\ args.d = 24 * 365
  /\ ret.text = "12 months, 5 days"

(***************************************************************************)
(* Properties of the analysis of a pod (SpecPod), and of the extraction    *)
(* from a secret or configmap (SpecCert)                                   *)
(***************************************************************************)

\* The pod was fetched and its analysis returned.
Analysed == analysis.returned /\ pod.get.err = ""

\* C17: for a pod that can be fetched, the map AnalyzePodCertificates
\* returns has the key "cluster-ca" with a source of type cluster-ca, also
\* when the trust anchor is empty or holds no certificate; that source then
\* has an error and no records.
C17_ClusterCAAlwaysListed ==
  Analysed =>
    /\ "cluster-ca" \in DOMAIN analysis.certSources
    /\ analysis.certSources["cluster-ca"].Type = "cluster-ca"
    /\ SelectSeq(pod.clusterCA, IsCertificate) = <<>> =>
         /\ analysis.certSources["cluster-ca"].Error # ""
         /\ analysis.certSources["cluster-ca"].Certificates = <<>>

\* The names of the secrets and of the configmaps the volumes of the pod
\* reference.
SecretNames ==
  {pod.get.Volumes[i].Secret[1] :
     i \in {j \in DOMAIN pod.get.Volumes : Len(pod.get.Volumes[j].Secret) = 1}}

ConfigMapNames ==
  {pod.get.Volumes[i].ConfigMap[1] :
     i \in {j \in DOMAIN pod.get.Volumes : Len(pod.get.Volumes[j].ConfigMap) = 1}}

\* C18: the analysis of a fetched pod returns success; its map has the key
\* "secret-<name>" or "configmap-<name>" for every volume that references a
\* secret or a configmap, whether or not the fetch of another object
\* failed; the source of an object whose fetch failed has an error and no
\* records; in every source an error implies no records.
C18_FetchFailureStaysInItsSource ==
  Analysed =>
    /\ analysis.err = ""
    /\ \A n \in SecretNames :
         /\ ("secret-" \o n) \in DOMAIN analysis.certSources
         /\ analysis.certSources["secret-" \o n].Type = "secret"
         /\ analysis.certSources["secret-" \o n].Name = n
         /\ pod.secrets[n].err # "" =>
              /\ analysis.certSources["secret-" \o n].Error # ""
              /\ analysis.certSources["secret-" \o n].Certificates = <<>>
    /\ \A n \in ConfigMapNames :
         /\ ("configmap-" \o n) \in DOMAIN analysis.certSources
         /\ analysis.certSources["configmap-" \o n].Type = "configmap"
         /\ analysis.certSources["configmap-" \o n].Name = n
         /\ pod.configMaps[n].err # "" =>
              /\ analysis.certSources["configmap-" \o n].Error # ""
              /\ analysis.certSources["configmap-" \o n].Certificates = <<>>
    /\ \A key \in DOMAIN analysis.certSources :
         analysis.certSources[key].Error # ""
           => analysis.certSources[key].Certificates = <<>>

\* A pod of two volumes: the secret of the first cannot be fetched, the
\* configmap of the second gives a record.
C18_Witness ==
  /\ Analysed
  /\ Len(pod.get.Volumes) = 2
  /\ pod.get.Volumes[1].Secret = <<"db">>
  /\ pod.secrets["db"].err # ""
  /\ analysis.certSources["secret-db"].Error # ""
  /\ pod.get.Volumes[2].ConfigMap = <<"trust">>
  /\ Len(analysis.certSources["configmap-trust"].Certificates) = 1

\* The value holds no certificate: it fails the single parse and the bundle
\* parse.
FailsBothParses(p) == SelectSeq(p, IsCertificate) = <<>>

\* C19: when a candidate key of a fetched secret or configmap holds a value
\* that fails both the single parse and the bundle parse, the source says
\* so in its error.
C19_ParserErrorsSurfaced ==
  /\ (output.op = "ExtractCertificatesFromSecret" /\ input.get.err = "") =>
       \A k \in DOMAIN input.get.Data :
         ((\E i \in DOMAIN SecretCertKeys : SecretCertKeys[i] = k)
            /\ FailsBothParses(input.get.Data[k]))
           => output.source.Error # ""
  /\ (output.op = "ExtractCertificatesFromConfigMap" /\ input.get.err = "") =>
       \A k \in DOMAIN input.get.Data \cup DOMAIN input.get.BinaryData :
         ((\E i \in DOMAIN ConfigMapCertKeys : ConfigMapCertKeys[i] = k)
            /\ FailsBothParses(ConfigMapValue(k)))
           => output.source.Error # ""

\* The key a record names at the end of its subject, "" when it names none.
KeyNamed(rec) ==
  IF /\ Len(rec.Subject) >= 3
     /\ rec.Subject[Len(rec.Subject)] = ")"
     /\ rec.Subject[Len(rec.Subject) - 2] = " (from "
  THEN rec.Subject[Len(rec.Subject) - 1]
  ELSE ""

\* The place of a key in the candidate list of a secret, 0 for other keys.
SecretKeyPlace(k) ==
  IF \E i \in DOMAIN SecretCertKeys : SecretCertKeys[i] = k
  THEN CHOOSE i \in DOMAIN SecretCertKeys : SecretCertKeys[i] = k
  ELSE 0

\* C20: the source of a fetched secret stands under "secret-<name>"; each of
\* its records ends its subject with " (from <key>)" for a candidate key of
\* the secret whose value holds the certificate of the record; the records
\* stand in the order of the candidate list; a key that is no candidate
\* gives no record; a secret with one certificate under tls.crt alone gives
\* exactly one record, ending in " (from tls.crt)".
C20_RecordsByCandidateKey ==
  Analysed =>
    \A n \in {m \in SecretNames : pod.secrets[m].err = ""} :
      /\ ("secret-" \o n) \in DOMAIN analysis.certSources
      /\ \A i \in DOMAIN analysis.certSources["secret-" \o n].Certificates :
           /\ SecretKeyPlace(KeyNamed(analysis.certSources["secret-" \o n].Certificates[i])) > 0
           /\ KeyNamed(analysis.certSources["secret-" \o n].Certificates[i])
                \in DOMAIN pod.secrets[n].Data
           /\ \E b \in DOMAIN pod.secrets[n].Data[
                         KeyNamed(analysis.certSources["secret-" \o n].Certificates[i])] :
                /\ IsCertificate(pod.secrets[n].Data[
                     KeyNamed(analysis.certSources["secret-" \o n].Certificates[i])][b])
                /\ RecordOf(analysis.certSources["secret-" \o n].Certificates[i],
                            pod.secrets[n].Data[
                              KeyNamed(analysis.certSources["secret-" \o n].Certificates[i])][b])
           /\ \A j \in 1..(i - 1) :
                SecretKeyPlace(KeyNamed(analysis.certSources["secret-" \o n].Certificates[j]))
                  <= SecretKeyPlace(KeyNamed(analysis.certSources["secret-" \o n].Certificates[i]))
      /\ pod.secrets[n].Data = ("tls.crt" :> OneCertPem) =>
           /\ Len(analysis.certSources["secret-" \o n].Certificates) = 1
           /\ KeyNamed(analysis.certSources["secret-" \o n].Certificates[1]) = "tls.crt"

\* A secret with certificates under ca.crt, tls.crt and a key that is no
\* candidate: two records, the one of tls.crt before the one of ca.crt.
C20_Witness ==
  /\ Analysed
  /\ "web-tls" \in SecretNames
  /\ DOMAIN pod.secrets["web-tls"].Data = {"bundle.txt", "ca.crt", "tls.crt"}
  /\ Len(analysis.certSources["secret-web-tls"].Certificates) = 2
  /\ KeyNamed(analysis.certSources["secret-web-tls"].Certificates[1]) = "tls.crt"
  /\ KeyNamed(analysis.certSources["secret-web-tls"].Certificates[2]) = "ca.crt"

(***************************************************************************)
(* Properties of the helper's environment and of the fallback's URL (Spec) *)
(***************************************************************************)

\* The query string of a URL: what follows its first "?", empty when the
\* URL has none.
QueryOf(urlStr) ==
  IF Contains(urlStr, <<"?">>)
  THEN SubSeq(urlStr,
              1 + (CHOOSE i \in 1..Len(urlStr) :
                     /\ urlStr[i] = "?"
                     /\ \A j \in 1..(i - 1) : urlStr[j] # "?"),
              Len(urlStr))
  ELSE <<>>

\* The names of the parameters of a query string: of each part between two
\* "&", what stands before its first "=".
ParameterNames(q) ==
  LET starts == {1} \cup {i + 1 : i \in {j \in 1..Len(q) : q[j] = "&"}}
      stop(b) == IF \E i \in b..Len(q) : q[i] \in {"=", "&"}
                 THEN CHOOSE i \in b..Len(q) :
                        /\ q[i] \in {"=", "&"}
                        /\ \A j \in b..(i - 1) : q[j] \notin {"=", "&"}
                 ELSE Len(q) + 1
  IN  {SubSeq(q, b, stop(b) - 1) : b \in {c \in starts : c <= Len(q)}}

\* The names the helper strategy sets from the configuration.
Overridden ==
  {"AWS_ACCESS_KEY_ID", "AWS_SECRET_ACCESS_KEY"}
    \cup (IF cfg.AWS.Region # "" THEN {"AWS_REGION"} ELSE {})

\* The entries of the environment the helper was started with.
PassedEntries == {helperCall.env[i] : i \in 1..Len(helperCall.env)}

\* The configured values stand in the helper's environment.
ConfiguredValuesPassed ==
  /\ EnvEntry("AWS_ACCESS_KEY_ID", cfg.AWS.AccessKeyID) \in PassedEntries
  /\ EnvEntry("AWS_SECRET_ACCESS_KEY", cfg.AWS.SecretAccessKey) \in PassedEntries
  /\ cfg.AWS.Region # "" => EnvEntry("AWS_REGION", cfg.AWS.Region) \in PassedEntries
  /\ \A i, j \in 1..Len(helperCall.env) :
       helperCall.env[i].k = helperCall.env[j].k => i = j

\* C26: with a configured key pair the helper's environment holds the
\* configured key, secret and (when set) region, and every other variable
\* of the caller's environment (an entry name=value) with its inherited
\* value, one entry per name and no entry from elsewhere; without a
\* configured key pair it is the caller's environment.
C26_HelperEnvironment ==
  helper.returned =>
    IF HasStaticCredentials(cfg)
    THEN /\ ConfiguredValuesPassed
         /\ \A i \in 1..Len(world.environ) :
              (world.environ[i].eq /\ world.environ[i].k \notin Overridden)
                => world.environ[i] \in PassedEntries
         /\ \A e \in PassedEntries :
              /\ e.eq
              /\ e.k \notin Overridden
                   => \E i \in 1..Len(world.environ) : world.environ[i] = e
    ELSE helperCall.env = world.environ

\* The helper was started with a configured key pair and no configured
\* region, in an environment that has another key, a region and an entry
\* with no "=": the key is the configured one, the region the inherited one.
C26_Witness ==
  /\ helper.returned
  /\ HasStaticCredentials(cfg)
  /\ cfg.AWS.Region = ""
  /\ world.environ = InheritedEnv
  /\ EnvEntry("AWS_ACCESS_KEY_ID", "AKIACFG") \in PassedEntries
  /\ EnvEntry("AWS_REGION", "eu-west-1") \in PassedEntries
  /\ EnvEntry("PATH", "/bin") \in PassedEntries
  /\ Len(helperCall.env) = 4

\* C27: the URL the fallback encodes is the presigned URL when that has a
\* query parameter named X-K8s-Aws-Id, and otherwise the presigned URL
\* followed by "&" (when it has a query string) or "?" (when it has none)
\* and X-K8s-Aws-Id=<cluster name>.
C27_ClusterIdAddedUnlessParameter ==
  FallbackSucceeded =>
    /\ DecodeString(Encoded).err = ""
    /\ DecodeString(Encoded).bytes =
         Bytes(IF ClusterIdHeader \in ParameterNames(QueryOf(answers.presign.URL))
               THEN answers.presign.URL
               ELSE answers.presign.URL
                      \o (IF Contains(answers.presign.URL, <<"?">>)
                          THEN <<"&">> ELSE <<"?">>)
                      \o ClusterIdHeader \o <<"=">> \o eksDetails.ClusterName)

(***************************************************************************)
(* Properties of the warnings for parsed records (SpecExpiry)              *)
(***************************************************************************)

\* The texts of the numbers 0 to n.
NumbersUpTo(n) == {ToString(k) : k \in 0..n}

\* An "expires in N days" warning.
ExpiresIn(warning) ==
  /\ Len(warning) >= 5
  /\ warning[Len(warning) - 4] = "' expires in "

\* C30: for records the parser built, every "expires in N days" warning of
\* ValidateCertificateExpiry has 0 <= N <= warningDays; no record is expired
\* with a positive DaysUntilExp, and no record that is not expired has a
\* negative one.
C30_RemainingDaysWithinBounds ==
  ret.op = "ValidateCertificateExpiry" =>
    /\ \A i \in 1..Len(ret.warnings) :
         ExpiresIn(ret.warnings[i])
           => ret.warnings[i][Len(ret.warnings[i]) - 3]
                \in NumbersUpTo(args.warningDays)
    /\ \A i \in 1..Len(args.certs) :
         /\ ~(args.certs[i].IsExpired /\ args.certs[i].DaysUntilExp > 0)
         /\ ~args.certs[i].IsExpired => args.certs[i].DaysUntilExp >= 0

\* An expired record and one with two days left, under a threshold of two
\* days: the second warning says "expires in 2 days".
C30_Witness ==
  /\ ret.op = "ValidateCertificateExpiry"
  /\ args.warningDays = 2
  /\ Len(args.certs) = 2
  /\ args.certs[1].IsExpired
  /\ args.certs[1].DaysUntilExp < 0
  /\ ~args.certs[2].IsExpired
  /\ Len(ret.warnings) = 2
  /\ ExpiresIn(ret.warnings[2])
  /\ ret.warnings[2][Len(ret.warnings[2]) - 3] = "2"

(***************************************************************************)
(* Properties of the warnings of an analysis and of a repeated analysis    *)
(* (SpecRepeat)                                                            *)
(***************************************************************************)

\* The warnings GetCertificateExpiryWarnings returned for the source under
\* `key`, in the order it returned them and without their prefix.
WarningsUnder(key) ==
  LET Under(w) == w[2] = key
      marked == SelectSeq(warned.warnings, Under)
  IN  [i \in 1..Len(marked) |-> SubSeq(marked[i], 4, Len(marked[i]))]

\* C21: every entry GetCertificateExpiryWarnings returns is "[<key>] "
\* followed by a warning, for a key of the map; the entries of a key are,
\* in order, the warnings ValidateCertificateExpiry produces for the
\* records of that source, so that a source with no records has no entry.
C21_WarningsPerSource ==
  warned.returned =>
    /\ \A i \in 1..Len(warned.warnings) :
         /\ Len(warned.warnings[i]) > 3
         /\ warned.warnings[i][1] = "["
         /\ warned.warnings[i][2] \in DOMAIN analysis.certSources
         /\ warned.warnings[i][3] = "] "
    /\ \A key \in DOMAIN analysis.certSources :
         /\ WarningsUnder(key)
              = ValidateCertificateExpiry(analysis.certSources[key].Certificates,
                                          warned.warningDays)
         /\ analysis.certSources[key].Certificates = <<>>
              => WarningsUnder(key) = <<>>

\* Three sources, ranged over with the cluster CA last: the secret has two
\* records and two warnings in the order of the records, the configmap
\* could not be fetched and has none, the cluster CA has one.
C21_Witness ==
  /\ warned.returned
  /\ warned.warningDays = 33
  /\ DOMAIN analysis.certSources = {"cluster-ca", "configmap-trust", "secret-web-tls"}
  /\ warned.order[3] = "cluster-ca"
  /\ analysis.certSources["configmap-trust"].Error # ""
  /\ Len(analysis.certSources["secret-web-tls"].Certificates) = 2
  /\ Len(WarningsUnder("secret-web-tls")) = 2
  /\ Len(WarningsUnder("cluster-ca")) = 1
  /\ Len(warned.warnings) = 3

\* A record with the fields that depend on the clock left out.
Unclocked(rec) == [rec EXCEPT !.DaysUntilExp = 0, !.IsExpired = FALSE]

AnsweredBy(handler) ==
  reqs[1].pc = "responded" /\ reqs[1].request.handler = handler

PodNameInPath ==
  Joined(SubSeq(reqs[1].request.path, Len(DetailsPrefix) + 1,
                Len(reqs[1].request.path)))

\* C22: a request for /pod-certificates/<pod-name> is answered 400 only
\* when <pod-name> is empty; with a name and a client, the handler analyses
\* the pod of that name: the first operation on the cluster is the Get of
\* that pod.
C22_PodNameFromPath ==
  AnsweredBy("HandlePodCertificateDetails") =>
    /\ reqs[1].response.code = 400 <=> PodNameInPath = ""
    /\ (PodNameInPath # "" /\ reqs[1].newClient.err = "") =>
         /\ Len(reqs[1].ops) > 0
         /\ reqs[1].ops[1]
              = GetOp("pods", NamespaceOf(reqs[1].request, DefaultNamespace),
                      PodNameInPath)

\* The pods the List of the namespace of the request gave.
ListedPods ==
  ObjectsOf(cluster, NamespaceOf(reqs[1].request, DefaultNamespace)).list

\* What the cluster answers for the pod `name` of the namespace of the
\* request.
ObjectsOfPod(name) ==
  PodObjects(ObjectsOf(cluster, NamespaceOf(reqs[1].request, DefaultNamespace)),
             reqs[1].newClient.eksDetails.ClusterCA, name)

\* The pod can be analysed, and has a certificate in one of its sources.
HasCertificates(name) ==
  /\ ObjectsOfPod(name).get.err = ""
  /\ getTotalCertificateCount(
       AnalyzePodCertificates(ObjectsOfPod(name), "", name, Clock(0, 0)).certSources) > 0

\* The sum of the field CertCount, and of WarningCount, over the entries.
RECURSIVE SumOfCerts(_)
SumOfCerts(infos) ==
  IF Len(infos) = 0 THEN 0 ELSE Head(infos).CertCount + SumOfCerts(Tail(infos))

RECURSIVE SumOfWarnings(_)
SumOfWarnings(infos) ==
  IF Len(infos) = 0 THEN 0 ELSE Head(infos).WarningCount + SumOfWarnings(Tail(infos))

\* C28: with a client and a list of pods, /certificate-expiry answers 200
\* whether or not the analysis of a pod fails; pod_expiry_info holds, in the
\* order of the list, the pods that were analysed and have a certificate or
\* a warning, each with its counts; total_certificates and total_warnings
\* are the sums of the counts; and total_warnings <= total_certificates.
C28_ExpiryTotals ==
  (AnsweredBy("HandleCertificateExpiry") /\ reqs[1].newClient.err = ""
     /\ ListedPods.err = "") =>
    /\ reqs[1].response.code = 200
    /\ [i \in 1..Len(reqs[1].response.body.pod_expiry_info) |->
          reqs[1].response.body.pod_expiry_info[i].PodName]
         = SelectSeq(ListedPods.Items, HasCertificates)
    /\ \A i \in 1..Len(reqs[1].response.body.pod_expiry_info) :
         /\ reqs[1].response.body.pod_expiry_info[i].CertCount
              = getTotalCertificateCount(
                  reqs[1].response.body.pod_expiry_info[i].CertSources)
         /\ reqs[1].response.body.pod_expiry_info[i].WarningCount
              = Len(reqs[1].response.body.pod_expiry_info[i].Warnings)
         /\ \/ reqs[1].response.body.pod_expiry_info[i].CertCount > 0
            \/ reqs[1].response.body.pod_expiry_info[i].WarningCount > 0
    /\ reqs[1].response.body.summary.total_certificates
         = SumOfCerts(reqs[1].response.body.pod_expiry_info)
    /\ reqs[1].response.body.summary.total_warnings
         = SumOfWarnings(reqs[1].response.body.pod_expiry_info)
    /\ reqs[1].response.body.summary.total_warnings
         <= reqs[1].response.body.summary.total_certificates

\* Two pods listed: the first is gone when it is fetched and is skipped, the
\* second has four certificates, some with a warning and some without.
C28_Witness ==
  /\ AnsweredBy("HandleCertificateExpiry")
  /\ reqs[1].response.code = 200
  /\ ListedPods.Items = <<"gone-2", "web-0">>
  /\ Len(reqs[1].response.body.pod_expiry_info) = 1
  /\ reqs[1].response.body.pod_expiry_info[1].PodName = "web-0"
  /\ reqs[1].response.body.summary.total_certificates = 4
  /\ reqs[1].response.body.summary.total_warnings > 0
  /\ reqs[1].response.body.summary.total_warnings < 4

\* C29: in an answer of /cluster-ca-expiry that describes a certificate,
\* time_remaining is "Expired" exactly when is_expired is true, also when
\* the clock went on between the parse and the answer.
C29_ExpiryValuesAgree ==
  (AnsweredBy("HandleClusterCACertificateExpiry") /\ reqs[1].response.code = 200
     /\ Len(reqs[1].response.body.certificate_info.enhanced_info) = 1) =>
    (reqs[1].response.body.certificate_info.enhanced_info[1].expiry_info.time_remaining
       = "Expired"
     <=> reqs[1].response.body.certificate_info.enhanced_info[1].is_expired)

(***************************************************************************)
(* Properties of requests handled at the same time (SpecConcurrent)        *)
(***************************************************************************)

\* The kinds of object the service asks the cluster for.
ReadResources == {"pods", "secrets", "configmaps", "namespaces"}

\* C24: every operation a request issues against the cluster is a get or a
\* list of pods, secrets, configmaps or namespaces; no step of a request
\* changes the objects of the cluster or their contents; and no step
\* changes the EKS details of a client once it is constructed.
C24_ClusterOnlyRead ==
  [][/\ cluster' = cluster
     /\ \A s \in Slots :
          /\ \A k \in 1..Len(reqs'[s].ops) :
               /\ reqs'[s].ops[k].verb \in {"get", "list"}
               /\ reqs'[s].ops[k].resource \in ReadResources
          /\ reqs[s].pc \notin {"arrived", "NewClient"} =>
               reqs'[s].newClient = reqs[s].newClient]_vars

\* Both requests are answered; the first listed the pods and fetched both
\* pods, the secret and the configmap, and the cluster is one of those the
\* requests started against.
C24_Witness ==
  /\ \A s \in Slots : reqs[s].pc = "responded" /\ reqs[s].response.code = 200
  /\ reqs[1].ops = <<ListOp("pods", "default"), GetOp("pods", "default", "web-0"),
                     GetOp("secrets", "default", "web-tls"),
                     GetOp("pods", "default", "web-1"),
                     GetOp("configmaps", "default", "trust")>>
  /\ reqs[1].newClient.eksDetails.ClusterCA = OneCertPem
  /\ cluster \in ConcurrentClusters

\* The answer of the handler of a request when it runs alone: with the
\* client its NewClient returned, against the cluster `objects`, with the
\* readings of the clock and the orders of the maps the request met; the
\* clock reads `hour` after those readings.
Alone(held, c, w, objects, hour) ==
  LET handler == held.request.handler
      clock == held.readings \o Clock(hour, ClockLen)
  IN  IF handler = "HandleCertificateExpiry"
      THEN HandleCertificateExpiry(held.request, DefaultNamespace, held.newClient,
                                   objects, clock, held.perms)
      ELSE IF handler = "HandlePodCertificateDetails"
      THEN HandlePodCertificateDetails(held.request, DefaultNamespace, held.newClient,
                                       objects, clock,
                                       IF Len(held.perms) = 0 THEN <<>>
                                       ELSE held.perms[1])
      ELSE IF handler = "HandlePodCertificates"
      THEN HandlePodCertificates(held.request, DefaultNamespace, held.newClient,
                                 objects, clock, held.perms)
      ELSE IF handler = "ListPodsHandler"
      THEN ListPodsHandler(held.request, DefaultNamespace, held.newClient, objects,
                           clock)
      ELSE IF handler = "ConnectK8sHandler"
      THEN ConnectK8sHandler(c, DefaultNamespace, held.newClient, objects, clock)
      ELSE IF handler = "ClusterCAHandler"
      THEN ClusterCAHandler(w.environ, w.home, w.fs, held.newClient, clock)
      ELSE IF handler = "HandleClusterCACertificateExpiry"
      THEN HandleClusterCACertificateExpiry(held.request, w.environ, w.home, w.fs,
                                            clock)
      ELSE IF handler = "DebugHandler" THEN DebugHandler(c, held.newClient, clock)
      ELSE IF handler = "TestK8sAuthHandler"
      THEN TestK8sAuthHandler(c, DefaultNamespace, held.newClient, objects, clock)
      ELSE IF handler = "APIDocsHandler" THEN APIDocsHandler(c, DefaultNamespace, clock)
      ELSE RootHandler(clock)

\* C25: in every interleaving of the steps of two requests, the step that
\* answers a request answers with the response, and has issued the
\* operations, of the handler run alone with the client the request's own
\* NewClient returned, against the same answers of the cluster, readings of
\* the clock and orders of the maps; and no step touches what a request
\* that is answered holds.
C25_ResponseAsAlone ==
  [][\A s \in Slots :
       /\ reqs[s].pc = "responded" => reqs'[s] = reqs[s]
       /\ (reqs[s].pc # "responded" /\ reqs'[s].pc = "responded") =>
            \E a \in {Alone(reqs'[s], cfg', world', cluster', now')} :
              /\ reqs'[s].response.code = a.code
              /\ reqs'[s].response.body = a.body
              /\ reqs'[s].ops = a.ops]_vars

\* Two requests for the expiry analysis, with different thresholds, both
\* answered: each analysed its first pod at hour 0 and its second pod at
\* hour 1, so neither was handled wholly before the other; the counts of
\* warnings differ.
C25_Witness ==
  /\ \A s \in Slots :
       /\ reqs[s].pc = "responded"
       /\ reqs[s].request.handler = "HandleCertificateExpiry"
       /\ reqs[s].response.code = 200
       /\ Len(reqs[s].response.body.pod_expiry_info) = 2
       /\ reqs[s].readings[1] = 0
       /\ reqs[s].readings[Len(reqs[s].readings)] = 1
  /\ reqs[1].response.body.summary.total_warnings
       # reqs[2].response.body.summary.total_warnings

=============================================================================
